---- MODULE Spec2Model ----
(***************************************************************************)
(* Model of the health-sync incremental synchronisation engine:            *)
(*   - the iOS side: AnchorStore, HealthKitManager (fetchAndSync,          *)
(*     resetAndResync, syncData) and SyncManager (queueBatch,              *)
(*     processQueue, uploadBatch, refreshMaterializedView);                *)
(*   - the server side: the /api/sync ingestion route, serving one         *)
(*     request at a time and two requests at the same time.                *)
(* Everything on the iOS side runs on the MainActor: the code between two  *)
(* suspension points (awaits that really leave the actor: the HealthKit    *)
(* query, the HTTP requests, the hop to the AnchorStore actor before       *)
(* setAnchor) is one atomic action.                                        *)
(***************************************************************************)
EXTENDS Integers, Sequences, FiniteSets, TLC

(* ------------------------------ bounds -------------------------------- *)
MaxLog == 2            \* entries HealthKit holds for a quantity type
MaxWorkouts == 1       \* entries HealthKit holds for the workout type
Today == 40            \* the day the model runs on
EngineBatchSize == 1   \* chunk size used by the engine runs of the model
ConcSamples == 2       \* samples HealthKit holds when two calls interleave
MaxQueue == 2          \* queued batches beyond which no call is started

(* ------------------------- program constants -------------------------- *)
batchSize == 1000      \* SyncConfig.batchSize
backfillDays == 30     \* SyncConfig.backfillDays

now == Today           \* Date()

NoAnchor == -1         \* HKQueryAnchor? == nil
NoPredicate == -1      \* NSPredicate? == nil
NoError == "nil"       \* String? == nil
Nil == <<>>            \* an Optional is a sequence of length 0 or 1
Some(x) == <<x>>

Types == {"HKQuantityTypeIdentifierHeartRate", "HKWorkoutType"}
\* HealthDataType.allCases, in the order of the enum
typesToSync == <<"HKQuantityTypeIdentifierHeartRate", "HKWorkoutType">>
Tasks == {1, 2}

RecordTypes == {"HKQuantityTypeIdentifierHeartRate"}

VARIABLES
    \* HealthKit (the source)
    hkLog,              \* per type: the sequence of changes of the store
    \* AnchorStore (UserDefaults: survives the process)
    anchors,            \* healthsync.anchor.<type>
    lastSyncTimes,      \* healthsync.lastsync.<type>
    \* HealthKitManager
    typeStatuses,       \* typeStatuses[type].lastError
    tasks,              \* the running fetchAndSync / resetAndResync calls
    \* SyncManager
    uploadQueue, isProcessingQueue, isSyncing, pendingBatches,
    lastSyncTime, lastError,
    queueTags,          \* history: for each batch of uploadQueue its rank
                        \* in the order of the queueBatch calls
    \* the ingestion service as the engine sees it
    acked,              \* samples a 2xx response was given for
    unsynced            \* history: samples of batches whose upload failed
                        \* since the process started and that no
                        \* successful upload has carried since

VARIABLES
    \* a call of syncData on its own
    batchIn,            \* its arguments
    batchOut            \* Nil, or Some(the batches it queued, in order)

batchVars == <<batchIn, batchOut>>

VARIABLES
    \* the ingestion service (POST /api/sync) and its database
    health_raw,         \* committed rows of table health_raw
    workouts,           \* committed rows of table workouts
    handler             \* the request being served, with its transaction

ingestVars == <<health_raw, workouts, handler>>

engineVars == <<hkLog, anchors, lastSyncTimes, typeStatuses, tasks,
                uploadQueue, queueTags, isProcessingQueue, isSyncing,
                pendingBatches, lastSyncTime, lastError, acked, unsynced>>

VARIABLES
    \* the AnchorStore on its own
    defaults,           \* UserDefaults.standard: key -> value
    lastSet,            \* history: per type the anchor set last, NoAnchor
                        \* if none was or it was cleared since
    got                 \* the last getAnchor call and what it returned

storeVars == <<defaults, lastSet, got>>

VARIABLES
    \* two requests served at the same time by the ingestion service
    clients             \* per connection of the pool: the request it serves

txVars == <<clients>>

VARIABLES
    \* deferred delivery: uploadBatchInBackground and the background session
    appState,           \* the host process: running, suspended, terminated
    transfers,          \* the upload tasks the system's transfer daemon holds
                        \* for the session identifier (outside the process)
    reported            \* the outcomes the code of the app was called with

bgVars == <<appState, transfers, reported>>

VARIABLES
    \* the app bundle
    bundleSecret        \* API_SECRET of Secrets.plist, Nil if the file or
                        \* the key is missing

confVars == <<bundleSecret>>

VARIABLES
    \* HealthKitManager: authorization and the observer queries
    launched,           \* the app has been launched
    isAuthorized,       \* HealthKitManager.isAuthorized
    authorizedDefault,  \* UserDefaults "healthkit_authorized"
    observerQueries,    \* per type: the observer queries the process has
                        \* executed and holds in observerQueries
    authCalls,          \* the running requestAuthorization calls
    authStarted         \* requestAuthorization calls since the launch

obsVars == <<launched, isAuthorized, authorizedDefault, observerQueries,
             authCalls, authStarted>>

appVars == <<bgVars, confVars, obsVars>>

nonEngineVars == <<batchVars, ingestVars, storeVars, txVars, appVars>>

vars == <<engineVars, batchVars, ingestVars, storeVars, txVars, appVars>>

(* ----------------------------- HealthKit ------------------------------- *)
\* The entries a data type's store can receive: for a quantity type a
\* sample that starts on the first day of the backfill window or the day
\* before it; for workouts a workout recorded by the watch or by the
\* phone, or the deletion of one.
NewEntries(type) ==
    IF type \in RecordTypes
    THEN { [kind |-> "sample", startDate |-> d, sourceName |-> "Apple Watch",
            activity |-> "none"] :
              d \in {now - backfillDays, now - backfillDays - 1} }
    ELSE { [kind |-> "sample", startDate |-> now, sourceName |-> n,
            activity |-> "running"] : n \in {"Apple Watch", "iPhone"} }
         \cup { [kind |-> "deleted", startDate |-> now,
                 sourceName |-> "Apple Watch", activity |-> "none"] }

\* the indices lo..hi for which P holds, in ascending order
SelectRange(lo, hi, P(_)) ==
    SelectSeq([k \in 1..(IF hi >= lo THEN hi - lo + 1 ELSE 0) |-> lo + k - 1], P)

\* HKQuery.predicateForSamples(withStart:end:nil options:.strictStartDate)
MatchesPredicate(entry, predicate) ==
    predicate = NoPredicate \/ entry.startDate >= predicate

\* HKAnchoredObjectQuery: what is new since the anchor
performAnchoredQuery(type, anchor, predicate) ==
    LET log == hkLog[type]
        from == IF anchor = NoAnchor THEN 0 ELSE anchor
        IsSample(i) == log[i].kind = "sample"
                       /\ MatchesPredicate(log[i], predicate)
        IsDeleted(i) == log[i].kind = "deleted"
    IN  [samples |-> SelectRange(from + 1, Len(log), IsSample),
         deletedObjects |-> SelectRange(from + 1, Len(log), IsDeleted),
         newAnchor |-> Len(log)]

(* ------------------------------ Models -------------------------------- *)
\* String.lowercased(), for the letters of the Latin alphabet
UpperLetters == "ABCDEFGHIJKLMNOPQRSTUVWXYZ"
LowerLetters == "abcdefghijklmnopqrstuvwxyz"
lowercasedChar(c) ==
    IF \E i \in 1..Len(UpperLetters) : SubSeq(UpperLetters, i, i) = c
    THEN LET i == CHOOSE i \in 1..Len(UpperLetters) : SubSeq(UpperLetters, i, i) = c
         IN  SubSeq(LowerLetters, i, i)
    ELSE c
RECURSIVE lowercased(_)
lowercased(s) ==
    IF Len(s) = 0 THEN ""
    ELSE lowercasedChar(SubSeq(s, 1, 1)) \o lowercased(SubSeq(s, 2, Len(s)))

\* String.contains(_:)
contains(s, sub) ==
    \E i \in 1..(Len(s) - Len(sub) + 1) : SubSeq(s, i, i + Len(sub) - 1) = sub

\* HKWorkoutActivityType: the cases shouldSync and name mention, and two of
\* the others
ActivityTypes ==
    {"walking", "running", "cycling", "swimming",
     "traditionalStrengthTraining", "functionalStrengthTraining",
     "hiking", "yoga", "elliptical", "rowing",
     "coreTraining", "highIntensityIntervalTraining",
     "crossTraining", "stairClimbing", "stairs",
     "climbing", "jumpRope", "paddleSports",
     "underwaterDiving", "crossCountrySkiing", "downhillSkiing",
     "snowboarding", "skatingSports", "tennis", "golf",
     "other", "dance"}

\* HKWorkout.shouldSync
validSources == {"watch", "apple watch"}
validTypes ==
    {"walking", "running", "cycling", "swimming",
     "traditionalStrengthTraining", "functionalStrengthTraining",
     "hiking", "yoga", "elliptical", "rowing",
     "coreTraining", "highIntensityIntervalTraining",
     "crossTraining", "stairClimbing", "stairs",
     "climbing", "jumpRope", "paddleSports",
     "underwaterDiving", "crossCountrySkiing", "downhillSkiing",
     "snowboarding", "skatingSports", "tennis", "golf"}
\* mutant: the activity type is not looked at
shouldSync_SourceOnly(entry) ==
    \E valid \in validSources : contains(lowercased(entry.sourceName), valid)

shouldSync(entry) ==
    /\ \E valid \in validSources : contains(lowercased(entry.sourceName), valid)
    /\ entry.activity \in validTypes

\* HKWorkoutActivityType.name
ActivityName(activity) ==
    CASE activity = "walking" -> "HKWorkoutActivityTypeWalking"
      [] activity = "running" -> "HKWorkoutActivityTypeRunning"
      [] activity = "cycling" -> "HKWorkoutActivityTypeCycling"
      [] activity = "swimming" -> "HKWorkoutActivityTypeSwimming"
      [] activity = "traditionalStrengthTraining" ->
            "HKWorkoutActivityTypeTraditionalStrengthTraining"
      [] activity = "functionalStrengthTraining" ->
            "HKWorkoutActivityTypeFunctionalStrengthTraining"
      [] activity = "hiking" -> "HKWorkoutActivityTypeHiking"
      [] activity = "yoga" -> "HKWorkoutActivityTypeYoga"
      [] activity = "elliptical" -> "HKWorkoutActivityTypeElliptical"
      [] activity = "rowing" -> "HKWorkoutActivityTypeRowing"
      [] OTHER -> "HKWorkoutActivityTypeOther"

\* HKQuantitySample.toPayload / HKWorkout.toPayload: a payload keeps the
\* sample it was made from (uuid = position in the type's log)
RecordPayload(type, i, entry) ==
    [uuid |-> i, recordType |-> type, sourceName |-> entry.sourceName,
     startTime |-> entry.startDate]
WorkoutPayload(i, entry) ==
    [uuid |-> i, workoutType |-> ActivityName(entry.activity),
     sourceName |-> entry.sourceName, startTime |-> entry.startDate]

SyncBatch(dataType, recordList, workoutList, deletedUUIDs) ==
    [dataType |-> dataType, records |-> recordList, workouts |-> workoutList,
     deletedUUIDs |-> deletedUUIDs]

NoBatch == SyncBatch("none", Nil, Nil, <<>>)

\* the items of a batch, whichever list holds them
BatchItems(b) ==
    (IF b.records = Nil THEN <<>> ELSE b.records[1])
    \o (IF b.workouts = Nil THEN <<>> ELSE b.workouts[1])

Min(a, b) == IF a < b THEN a ELSE b
ToSet(seq) == { seq[k] : k \in 1..Len(seq) }

(* ------------------------ HealthKitManager.syncData -------------------- *)
\* mutant: the loop stops before a chunk that is not full
RECURSIVE StrideChunks_DropTail(_, _, _)
StrideChunks_DropTail(all, i, bs) ==
    IF i + bs > Len(all) THEN <<>>
    ELSE <<[i |-> i, chunk |-> SubSeq(all, i + 1, i + bs)]>>
         \o StrideChunks_DropTail(all, i + bs, bs)

\* for i in stride(from: 0, to: all.count, by: bs): the pairs (i, chunk)
RECURSIVE StrideChunks(_, _, _)
StrideChunks(all, i, bs) ==
    IF i >= Len(all) THEN <<>>
    ELSE LET end == Min(i + bs, Len(all))
         IN  <<[i |-> i, chunk |-> SubSeq(all, i + 1, end)]>>
             \o StrideChunks(all, i + bs, bs)

\* mutant: every chunk carries the deletions
ChunkDeletions_Every(i, deletedUUIDs) == deletedUUIDs

\* deletedUUIDs: i == 0 ? deletedUUIDs : []
ChunkDeletions(i, deletedUUIDs) == IF i = 0 THEN deletedUUIDs ELSE <<>>

\* mutant: a batch of records carries an empty workouts list, a batch of
\* deletions an empty records list
syncDataBatches_EmptyLists(type, allRecords, allWorkouts, deletedUUIDs, bs) ==
    IF allRecords # <<>> THEN
        LET cs == StrideChunks(allRecords, 0, bs)
        IN  [k \in 1..Len(cs) |->
                SyncBatch(type, Some(cs[k].chunk), Some(<<>>),
                          ChunkDeletions(cs[k].i, deletedUUIDs))]
    ELSE IF allWorkouts # <<>> THEN
        LET cs == StrideChunks(allWorkouts, 0, bs)
        IN  [k \in 1..Len(cs) |->
                SyncBatch(type, Nil, Some(cs[k].chunk),
                          ChunkDeletions(cs[k].i, deletedUUIDs))]
    ELSE IF deletedUUIDs # <<>> THEN
        <<SyncBatch(type, Some(<<>>), Nil, deletedUUIDs)>>
    ELSE <<>>

\* The batches syncData hands to queueBatch, in order, given the payloads
\* it computed (allRecords, allWorkouts).
syncDataBatches(type, allRecords, allWorkouts, deletedUUIDs, bs) ==
    IF allRecords # <<>> THEN
        LET cs == StrideChunks(allRecords, 0, bs)
        IN  [k \in 1..Len(cs) |->
                SyncBatch(type, Some(cs[k].chunk), Nil,
                          ChunkDeletions(cs[k].i, deletedUUIDs))]
    ELSE IF allWorkouts # <<>> THEN
        LET cs == StrideChunks(allWorkouts, 0, bs)
        IN  [k \in 1..Len(cs) |->
                SyncBatch(type, Nil, Some(cs[k].chunk),
                          ChunkDeletions(cs[k].i, deletedUUIDs))]
    ELSE IF deletedUUIDs # <<>> THEN
        <<SyncBatch(type, Nil, Nil, deletedUUIDs)>>
    ELSE <<>>

\* samples.compactMap { ... toPayload() } per data type
allRecordsOf(type, samples) ==
    IF type \in RecordTypes
    THEN [k \in 1..Len(samples) |->
             RecordPayload(type, samples[k], hkLog[type][samples[k]])]
    ELSE <<>>
allWorkoutsOf(type, samples) ==
    IF type \in RecordTypes THEN <<>>
    ELSE LET Keep(i) == shouldSync(hkLog[type][i])
             kept == SelectSeq(samples, Keep)
         IN  [k \in 1..Len(kept) |-> WorkoutPayload(kept[k], hkLog[type][kept[k]])]

syncData(type, samples, deletedUUIDs) ==
    syncDataBatches(type, allRecordsOf(type, samples),
                    allWorkoutsOf(type, samples), deletedUUIDs, EngineBatchSize)

(* ------------------------------- tasks --------------------------------- *)
\* A call of fetchAndSync or resetAndResync with its local variables.
\* pc is the suspension point the call waits at.
IdleTask ==
    [pc |-> "idle", op |-> "none", type |-> "none",
     anchor |-> NoAnchor, predicate |-> NoPredicate,
     samples |-> <<>>,         \* the samples the query returned (uuids)
     newAnchor |-> NoAnchor,
     chunks |-> <<>>,          \* batches syncData has still to queue
     batch |-> NoBatch,        \* the batch processQueue is uploading
     rest |-> <<>>,            \* syncAll: the types still to come
     notified |-> FALSE,       \* the Task of an observer notification
     acks |-> 0,               \* calls of its completionHandler
     tag |-> 0,                \* history: queueBatch rank of that batch
     ownBatch |-> FALSE,       \* history: that batch was built by this call
     failed |-> FALSE,         \* history: a batch built by this call, and
                               \* uploaded by it, failed to upload
     built |-> 0,              \* history: batches syncData built
     refreshes |-> 0,          \* history: refresh requests the call issued
     syncTimeBefore |-> 0]     \* history: lastSyncTimes[type] at the start

SampleIds(type, b) == { <<type, BatchItems(b)[k].uuid>> : k \in 1..Len(BatchItems(b)) }

\* The state after the process has started, log being what HealthKit holds
EngineStart(log) ==
    /\ hkLog = log
    /\ anchors = [type \in Types |-> NoAnchor]
    /\ lastSyncTimes = [type \in Types |-> 0]
    /\ typeStatuses = [type \in Types |-> NoError]
    /\ tasks = [t \in Tasks |-> IdleTask]
    /\ uploadQueue = <<>>
    /\ isProcessingQueue = FALSE
    /\ isSyncing = FALSE
    /\ pendingBatches = 0
    /\ lastSyncTime = 0
    /\ lastError = NoError
    /\ queueTags = <<>>
    /\ acked = {}
    /\ unsynced = {}

EngineInit == EngineStart([type \in Types |-> <<>>])

(* ---------------------------- environment ------------------------------ *)
\* HealthKit records a new sample or a deletion.
HKAdd(type, entry) ==
    /\ Len(hkLog[type]) < (IF type \in RecordTypes THEN MaxLog ELSE MaxWorkouts)
    /\ hkLog' = [hkLog EXCEPT ![type] = Append(@, entry)]
    /\ UNCHANGED nonEngineVars
    /\ UNCHANGED <<anchors, lastSyncTimes, typeStatuses, tasks,
                   uploadQueue, queueTags, isProcessingQueue, isSyncing,
                   pendingBatches, lastSyncTime, lastError, acked, unsynced>>

\* The process is terminated and started again: what lives in memory is
\* lost, UserDefaults, HealthKit and the server keep their content.
Crash ==
    /\ tasks' = [t \in Tasks |-> IdleTask]
    /\ typeStatuses' = [type \in Types |-> NoError]
    /\ uploadQueue' = <<>>
    /\ isProcessingQueue' = FALSE
    /\ isSyncing' = FALSE
    /\ pendingBatches' = 0
    /\ lastSyncTime' = 0
    /\ lastError' = NoError
    /\ queueTags' = <<>>
    /\ unsynced' = {}
    /\ UNCHANGED nonEngineVars
    /\ UNCHANGED <<hkLog, anchors, lastSyncTimes, acked>>

(* ------------- SyncManager.queueBatch / processQueue ------------------- *)
Max(S) == CHOOSE m \in S : \A x \in S : x <= m

\* the rank the next queueBatch call gets: above every batch that is
\* queued or being uploaded
NextTag ==
    LET inSystem == ToSet(queueTags)
                    \cup { tasks[t].tag : t \in { u \in Tasks : tasks[u].pc = "upload" } }
    IN  IF inSystem = {} THEN 1 ELSE Max(inSystem) + 1

\* the lowest element of a sequence of numbers, d if it is empty
LowestOf(seq, d) ==
    IF seq = <<>> THEN d
    ELSE CHOOSE m \in ToSet(seq) : \A x \in ToSet(seq) : m <= x

\* mutant: the batch being uploaded is counted as well
count_WithInFlight(q) == Len(q) + 1

\* pendingBatches = uploadQueue.count
count(q) == Len(q)

\* mutant: the flag is not looked at
MayProcess_Always(flag) == TRUE

\* if !isProcessingQueue { await processQueue() }, and processQueue's
\* guard !isProcessingQueue else { return }
MayProcess(flag) == ~flag

\* mutant: the newest batch is taken
removeFirst_Last(q) == [first |-> q[Len(q)], rest |-> SubSeq(q, 1, Len(q) - 1)]

\* mutant: the batch is read and left in the queue
removeFirst_Peek(q) == [first |-> Head(q), rest |-> q]

\* uploadQueue.removeFirst()
removeFirst(q) == [first |-> Head(q), rest |-> Tail(q)]

\* syncData's loop from the point where task t (local state tk) is about
\* to queue tk.chunks, run up to its next suspension point:
\*  - while a processQueue loop is active every queueBatch returns at once,
\*    so all chunks are appended and syncData returns;
\*  - otherwise the first queueBatch enters processQueue, which takes the
\*    head of the queue and suspends in uploadBatch.
ContinueSyncData(t, tk) ==
    IF tk.chunks = <<>> THEN
        /\ tasks' = [tasks EXCEPT ![t] = [tk EXCEPT !.pc = "setAnchor"]]
        /\ UNCHANGED <<uploadQueue, queueTags, isProcessingQueue, isSyncing,
                       pendingBatches>>
    ELSE IF ~MayProcess(isProcessingQueue) THEN
        /\ uploadQueue' = uploadQueue \o tk.chunks
        /\ queueTags' = queueTags \o [k \in 1..Len(tk.chunks) |-> NextTag + k - 1]
        /\ pendingBatches' = count(uploadQueue')
        /\ tasks' = [tasks EXCEPT ![t] =
                        [tk EXCEPT !.pc = "setAnchor", !.chunks = <<>>]]
        /\ UNCHANGED <<isProcessingQueue, isSyncing>>
    ELSE
        LET q == removeFirst(Append(uploadQueue, Head(tk.chunks)))
            g == removeFirst(Append(queueTags, NextTag))
        IN  /\ isProcessingQueue' = TRUE
            /\ isSyncing' = TRUE
            /\ uploadQueue' = q.rest
            /\ queueTags' = g.rest
            /\ pendingBatches' = count(q.rest)
            /\ tasks' = [tasks EXCEPT ![t] =
                            [tk EXCEPT !.pc = "upload", !.batch = q.first,
                                       !.tag = g.first,
                                       !.ownBatch = (uploadQueue = <<>>),
                                       !.chunks = Tail(tk.chunks)]]

(* --------------------- HealthKitManager.fetchAndSync ------------------- *)
\* mutant: the window is applied whether or not there is an anchor
backfillPredicate_Always(anchor) == now - backfillDays

\* let predicate: NSPredicate? = anchor == nil ? predicateForSamples(
\*     withStart: now - backfillDays, ...) : nil
backfillPredicate(anchor) ==
    IF anchor = NoAnchor THEN now - backfillDays ELSE NoPredicate

\* The locals of a call of fetchAndSync(type) at the await of
\* performAnchoredQuery; A is the content of the AnchorStore
BeginFetch(op, type, rest, notified, A) ==
    [IdleTask EXCEPT !.pc = "query", !.op = op, !.type = type, !.rest = rest,
                     !.notified = notified,
                     !.anchor = A[type],
                     !.predicate = backfillPredicate(A[type]),
                     !.syncTimeBefore = lastSyncTimes[type]]

\* fetchAndSync or resetAndResync returns to its caller: the for loop of
\* syncAll calls fetchAndSync for the next type, the Task of an observer
\* calls completionHandler(), any other caller is done.
Return(tk, A) ==
    IF tk.op = "syncAll" /\ tk.rest # <<>>
    THEN BeginFetch("syncAll", Head(tk.rest), Tail(tk.rest), FALSE, A)
    ELSE IF tk.notified
    THEN [IdleTask EXCEPT !.notified = TRUE, !.acks = tk.acks + 1]
    ELSE IdleTask

\* fetchAndSync up to the await of performAnchoredQuery
StartFetchAndSync(t, type) ==
    /\ tasks[t].pc = "idle"
    /\ tasks' = [tasks EXCEPT ![t] =
                    BeginFetch("fetchAndSync", type, <<>>, FALSE, anchors)]
    /\ UNCHANGED nonEngineVars
    /\ UNCHANGED <<hkLog, anchors, lastSyncTimes, typeStatuses,
                   uploadQueue, queueTags, isProcessingQueue, isSyncing,
                   pendingBatches, lastSyncTime, lastError, acked, unsynced>>

\* syncAll: for type in typesToSync { await fetchAndSync(type: type) },
\* up to the first await of performAnchoredQuery
StartSyncAll(t, types) ==
    /\ tasks[t].pc = "idle"
    /\ types # <<>>
    /\ tasks' = [tasks EXCEPT ![t] =
                    BeginFetch("syncAll", Head(types), Tail(types), FALSE, anchors)]
    /\ UNCHANGED nonEngineVars
    /\ UNCHANGED <<hkLog, anchors, lastSyncTimes, typeStatuses,
                   uploadQueue, queueTags, isProcessingQueue, isSyncing,
                   pendingBatches, lastSyncTime, lastError, acked, unsynced>>

\* The update handler of the HKObserverQuery of a type is called without
\* error: its Task calls fetchAndSync, and completionHandler() after it
ObserverTriggered(t, type) ==
    /\ tasks[t].pc = "idle"
    /\ tasks' = [tasks EXCEPT ![t] =
                    BeginFetch("fetchAndSync", type, <<>>, TRUE, anchors)]
    /\ UNCHANGED nonEngineVars
    /\ UNCHANGED <<hkLog, anchors, lastSyncTimes, typeStatuses,
                   uploadQueue, queueTags, isProcessingQueue, isSyncing,
                   pendingBatches, lastSyncTime, lastError, acked, unsynced>>

\* The update handler is called with an error: its Task records the error
\* and calls completionHandler()
ObserverError(t, type) ==
    /\ tasks[t].pc = "idle"
    /\ typeStatuses' = [typeStatuses EXCEPT ![type] = "observer error"]
    /\ tasks' = [tasks EXCEPT ![t] =
                    [IdleTask EXCEPT !.notified = TRUE, !.acks = 1]]
    /\ UNCHANGED nonEngineVars
    /\ UNCHANGED <<hkLog, anchors, lastSyncTimes,
                   uploadQueue, queueTags, isProcessingQueue, isSyncing,
                   pendingBatches, lastSyncTime, lastError, acked, unsynced>>

\* mutant: clearAllAnchors is called
clearAnchor_All(A, type) == [T \in DOMAIN A |-> NoAnchor]

\* AnchorStore.clearAnchor(for: type)
clearAnchor(A, type) == [A EXCEPT ![type] = NoAnchor]

\* resetAndResync up to the await of performAnchoredQuery
StartResetAndResync(t, type) ==
    /\ tasks[t].pc = "idle"
    /\ anchors' = clearAnchor(anchors, type)
    /\ tasks' = [tasks EXCEPT ![t] =
                    [IdleTask EXCEPT !.pc = "query", !.op = "resetAndResync",
                        !.type = type, !.anchor = NoAnchor,
                        !.predicate = now - backfillDays,
                        !.syncTimeBefore = lastSyncTimes[type]]]
    /\ UNCHANGED nonEngineVars
    /\ UNCHANGED <<hkLog, lastSyncTimes, typeStatuses,
                   uploadQueue, queueTags, isProcessingQueue, isSyncing,
                   pendingBatches, lastSyncTime, lastError, acked, unsynced>>

\* if !samples.isEmpty || !deletedObjects.isEmpty { await syncData(...) }:
\* the batches the call tk hands to queueBatch when its query returns
queryBatches(tk) ==
    LET r == performAnchoredQuery(tk.type, tk.anchor, tk.predicate)
    IN  IF r.samples # <<>> \/ r.deletedObjects # <<>>
        THEN syncData(tk.type, r.samples, r.deletedObjects)
        ELSE <<>>

\* The anchored query returns a result: syncData builds the batches and
\* starts queueing them.
QueryReturns(t) ==
    /\ tasks[t].pc = "query"
    /\ LET tk == tasks[t]
           r == performAnchoredQuery(tk.type, tk.anchor, tk.predicate)
           batches == queryBatches(tk)
       IN  ContinueSyncData(t, [tk EXCEPT !.samples = r.samples,
                                          !.newAnchor = r.newAnchor,
                                          !.chunks = batches,
                                          !.built = Len(batches)])
    /\ UNCHANGED nonEngineVars
    /\ UNCHANGED <<hkLog, anchors, lastSyncTimes, typeStatuses,
                   lastSyncTime, lastError, acked, unsynced>>

\* mutant: the error is swallowed
recordError_Nothing(statuses, type, message) == statuses

\* typeStatuses[type]?.lastError = error.localizedDescription
recordError(statuses, type, message) == [statuses EXCEPT ![type] = message]

\* The anchored query fails: catch block
QueryFails(t) ==
    /\ tasks[t].pc = "query"
    /\ typeStatuses' = recordError(typeStatuses, tasks[t].type, "query failed")
    /\ tasks' = [tasks EXCEPT ![t] = Return(tasks[t], anchors)]
    /\ UNCHANGED nonEngineVars
    /\ UNCHANGED <<hkLog, anchors, lastSyncTimes,
                   uploadQueue, queueTags, isProcessingQueue, isSyncing,
                   pendingBatches, lastSyncTime, lastError, acked, unsynced>>

\* "Save new anchor" and "Update status", the end of the call
SetAnchor(t) ==
    /\ tasks[t].pc = "setAnchor"
    /\ anchors' = [anchors EXCEPT ![tasks[t].type] = tasks[t].newAnchor]
    /\ typeStatuses' = [typeStatuses EXCEPT ![tasks[t].type] = NoError]
    /\ tasks' = [tasks EXCEPT ![t] = Return(tasks[t], anchors')]
    /\ UNCHANGED nonEngineVars
    /\ UNCHANGED <<hkLog, lastSyncTimes,
                   uploadQueue, queueTags, isProcessingQueue, isSyncing,
                   pendingBatches, lastSyncTime, lastError, acked, unsynced>>

(* ------------------------ SyncManager.processQueue --------------------- *)
\* The while loop of processQueue after one uploadBatch has returned, with
\* queue (ranks tags) what uploadQueue holds: take the next batch and
\* suspend in its upload, or leave the loop, clear the flags and suspend in
\* refreshMaterializedView.  base is the task table with the history of the
\* finished upload recorded.  A batch taken here was queued by another
\* call: this one has been suspended in processQueue since it queued its
\* own.
NextInQueue(t, base, queue, tags) ==
    IF queue # <<>> THEN
        LET g == removeFirst(tags)
            \* the ranks are kept relative: the lowest one in use is 1
            low == Min(g.first, LowestOf(g.rest, g.first)) - 1
        IN  /\ uploadQueue' = removeFirst(queue).rest
            /\ queueTags' = [k \in 1..Len(g.rest) |-> g.rest[k] - low]
            /\ pendingBatches' = count(removeFirst(queue).rest)
            /\ tasks' = [base EXCEPT ![t].batch = removeFirst(queue).first,
                                     ![t].tag = g.first - low,
                                     ![t].ownBatch = FALSE]
            /\ UNCHANGED <<isProcessingQueue, isSyncing>>
    ELSE
        /\ isProcessingQueue' = FALSE
        /\ isSyncing' = FALSE
        /\ uploadQueue' = queue
        /\ queueTags' = tags
        /\ tasks' = [base EXCEPT ![t].pc = "refresh", ![t].batch = NoBatch,
                                 ![t].tag = 0,
                                 ![t].ownBatch = FALSE,
                                 ![t].refreshes = @ + 1]
        /\ UNCHANGED pendingBatches

\* uploadBatch returns normally (2xx): the server has ingested the batch
UploadSucceeds(t) ==
    /\ tasks[t].pc = "upload"
    /\ acked' = acked \cup SampleIds(tasks[t].batch.dataType, tasks[t].batch)
    /\ unsynced' = unsynced \ SampleIds(tasks[t].batch.dataType, tasks[t].batch)
    /\ lastSyncTimes' = [lastSyncTimes EXCEPT ![tasks[t].batch.dataType] = now]
    /\ lastSyncTime' = now
    /\ lastError' = NoError
    /\ NextInQueue(t, tasks, uploadQueue, queueTags)
    /\ UNCHANGED nonEngineVars
    /\ UNCHANGED <<hkLog, anchors, typeStatuses>>

\* mutant: the error ends the loop and the queued batches are dropped
QueueAfterFailure_Dropped(q, failed) == <<>>

\* mutant: the failed batch is queued again
QueueAfterFailure_Requeued(q, failed) == Append(q, failed)

\* the catch block leaves uploadQueue alone ("just log and continue"),
\* whatever batch failed
QueueAfterFailure(q, failed) == q

\* uploadBatch throws (transport error, timeout, non-2xx status): catch
UploadErrors == {"transport error", "Server error (500)"}
\* ... the server refuses the credential: SyncError.serverError(401, ...)
AuthErrors == {"Server error (401)"}
UploadFails(t, error) ==
    /\ tasks[t].pc = "upload"
    /\ lastError' = error
    /\ unsynced' = unsynced \cup SampleIds(tasks[t].batch.dataType, tasks[t].batch)
    /\ NextInQueue(t, IF tasks[t].ownBatch
                       THEN [tasks EXCEPT ![t].failed = TRUE]
                       ELSE tasks,
                   QueueAfterFailure(uploadQueue, tasks[t].batch),
                   QueueAfterFailure(queueTags, tasks[t].tag))
    /\ UNCHANGED nonEngineVars
    /\ UNCHANGED <<hkLog, anchors, lastSyncTimes, typeStatuses,
                   lastSyncTime, acked>>

\* POST /api/sync/refresh as the engine sees it: the route keeps no flag
\* and takes no lock, it runs REFRESH MATERIALIZED VIEW for every
\* authorised request when the request arrives.  The refreshes in flight
\* are those of the calls suspended in refreshMaterializedView.
refreshesInFlight == { t \in Tasks : tasks[t].pc = "refresh" }

\* refreshMaterializedView returns (its outcome is only printed);
\* processQueue and queueBatch return into syncData's loop
RefreshReturns(t) ==
    /\ tasks[t].pc = "refresh"
    /\ ContinueSyncData(t, tasks[t])
    /\ UNCHANGED nonEngineVars
    /\ UNCHANGED <<hkLog, anchors, lastSyncTimes, typeStatuses,
                   lastSyncTime, lastError, acked, unsynced>>

(* -------------------------- syncData on its own ------------------------ *)
MaxItems == 7          \* payloads one call of syncData is given
MaxBatchSize == 3      \* chunk sizes tried besides SyncConfig.batchSize
MaxDeleted == 2        \* deletion identifiers one call is given

NoInput == [type |-> "none", items |-> <<>>, deletedUUIDs |-> <<>>, bs |-> 1]
BatchIdle == batchIn = NoInput /\ batchOut = Nil

Iota(n) == [k \in 1..n |-> k]

\* The payloads are 1..n (what they hold plays no part in the chunking);
\* the deletion identifiers are 1..d.  Small sizes with small chunk sizes,
\* and the 2500 samples of the scenario with the real chunk size.
BatchInputs ==
    { [type |-> type, items |-> Iota(n), deletedUUIDs |-> Iota(d), bs |-> bs] :
        type \in Types, n \in 0..MaxItems, d \in 0..MaxDeleted,
        bs \in 1..MaxBatchSize }
    \cup
    { [type |-> type, items |-> Iota(2500), deletedUUIDs |-> Iota(d),
       bs |-> batchSize] : type \in Types, d \in 0..MaxDeleted }

BatchInit == batchIn \in BatchInputs /\ batchOut = Nil

\* syncData with the payloads already computed: a quantity or category
\* type fills allRecords, the workout type fills allWorkouts
RunSyncData ==
    /\ batchOut = Nil
    /\ batchOut' = Some(syncDataBatches(
                        batchIn.type,
                        IF batchIn.type \in RecordTypes THEN batchIn.items ELSE <<>>,
                        IF batchIn.type \in RecordTypes THEN <<>> ELSE batchIn.items,
                        batchIn.deletedUUIDs, batchIn.bs))
    /\ UNCHANGED <<batchIn, engineVars, appVars, ingestVars, storeVars, txVars>>

BatchNext == RunSyncData


(* ------------------- the ingestion service: POST /api/sync ------------- *)
MaxRecords == 2        \* records in one request
MaxWorkoutItems == 1   \* workouts in one request

API_SECRET == "CHANGE_ME"

\* An Authorization header is kept as its first seven characters and the
\* rest, which is what startsWith("Bearer ") and slice(7) look at.
Header(head7, rest) == [present |-> TRUE, head7 |-> head7, rest |-> rest]
NoHeader == [present |-> FALSE, head7 |-> "", rest |-> ""]
startsWithBearer(h) == h.head7 = "Bearer "
slice7(h) == h.rest

\* mutant: the token is not compared
Unauthorized_PrefixOnly(h) == ~h.present \/ ~startsWithBearer(h)

\* !authHeader?.startsWith("Bearer ") || authHeader.slice(7) !== API_SECRET
Unauthorized(h) ==
    \/ ~h.present
    \/ ~startsWithBearer(h)
    \/ slice7(h) # API_SECRET

Headers ==
    { NoHeader,
      Header("Bearer ", API_SECRET),
      Header("Bearer ", "wrong"),
      Header("bearer ", API_SECRET),
      Header("Bearer", "") }

\* `${number}`
Digits == <<"0", "1", "2", "3", "4", "5", "6", "7", "8", "9">>
RECURSIVE NumStr(_)
NumStr(n) == IF n < 10 THEN Digits[n + 1]
             ELSE NumStr(n \div 10) \o Digits[(n % 10) + 1]

\* createHash("sha256").update(key).digest("hex"): no two keys collide
sha256(key) == <<"sha256", key>>

\* `${record.value ?? record.valueText}`
ValueOrText(record) ==
    IF record.value # Nil THEN NumStr(record.value[1])
    ELSE IF record.valueText # Nil THEN record.valueText[1]
    ELSE "undefined"

\* mutant: the unit is part of the key
RecordKey_WithUnit(record) ==
    record.recordType \o "|" \o record.sourceName \o "|" \o record.startTime
        \o "|" \o record.endTime \o "|" \o ValueOrText(record)
        \o "|" \o record.unit

RecordKey(record) ==
    record.recordType \o "|" \o record.sourceName \o "|" \o record.startTime
        \o "|" \o record.endTime \o "|" \o ValueOrText(record)

\* mutant: a hash the caller supplies is taken over
generateRecordHash_Trusting(record) ==
    IF "hash" \in DOMAIN record THEN record.hash ELSE sha256(RecordKey(record))

generateRecordHash(record) == sha256(RecordKey(record))

WorkoutKey(workout) ==
    workout.workoutType \o "|" \o workout.sourceName \o "|" \o workout.startTime
        \o "|" \o workout.endTime \o "|" \o NumStr(workout.durationSeconds)
generateWorkoutHash(workout) == sha256(WorkoutKey(workout))

\* The payloads requests are made of.
T1 == "2026-01-16T08:00:00Z"
T2 == "2026-01-16T09:00:00Z"
BadTime == "not-a-date"
HR(start, unit, bundle, metadata) ==
    [recordType |-> "HKQuantityTypeIdentifierHeartRate",
     sourceName |-> "Apple Watch", sourceBundle |-> bundle,
     value |-> Some(72), valueText |-> Nil, unit |-> unit,
     startTime |-> start, endTime |-> start, metadata |-> metadata]
Sleep(start) ==
    [recordType |-> "HKCategoryTypeIdentifierSleepAnalysis",
     sourceName |-> "Apple Watch", sourceBundle |-> "com.apple.health",
     value |-> Nil, valueText |-> Some("Awake"), unit |-> "",
     startTime |-> start, endTime |-> T2, metadata |-> Nil]
RecordPayloads ==
    { HR(T1, "count/min", "com.apple.health", Nil),
      HR(T1, "bpm", "com.other.app", Some("HKMetadataKeyHeartRateMotionContext")),
      Sleep(T1),
      HR(BadTime, "count/min", "com.apple.health", Nil) }
Run(start, distance, metadata) ==
    [workoutType |-> "HKWorkoutActivityTypeRunning",
     sourceName |-> "Apple Watch", sourceBundle |-> "com.apple.health",
     startTime |-> start, endTime |-> T2, durationSeconds |-> 3600,
     totalDistance |-> distance, totalEnergyBurned |-> Some(500),
     statistics |-> Nil, metadata |-> metadata]
WorkoutPayloads ==
    { Run(T1, Some(5), Nil),
      Run(T1, Nil, Some("HKIndoorWorkout")),
      Run(BadTime, Some(5), Nil) }

SeqsUpTo(S, n) == UNION { [1..k -> S] : k \in 0..n }

\* request bodies: a SyncBatch (records and workouts are both optional
\* lists for the route), or something request.json() cannot parse
\* (a batch of records comes with or without deletion identifiers, a batch
\* with workouts without)
DeletedLists == { <<>>, <<"5E2C1A7B-0000-4000-8000-000000000001">> }
Bodies ==
    { [json |-> TRUE, records |-> r, workouts |-> <<>>, deletedUUIDs |-> d] :
        r \in SeqsUpTo(RecordPayloads, MaxRecords), d \in DeletedLists }
    \cup
    { [json |-> TRUE, records |-> r, workouts |-> w, deletedUUIDs |-> <<>>] :
        r \in SeqsUpTo(RecordPayloads, MaxRecords),
        w \in SeqsUpTo(WorkoutPayloads, MaxWorkoutItems) }
    \cup { [json |-> FALSE, records |-> <<>>, workouts |-> <<>>,
            deletedUUIDs |-> <<>>] }

\* Postgres refuses the row: start_time is not a timestamp
InsertThrows(item) == item.startTime = BadTime

RecordRow(record, hash) ==
    [record_type |-> record.recordType, source_name |-> record.sourceName,
     source_bundle_id |-> record.sourceBundle, unit |-> record.unit,
     value_numeric |-> record.value, value_text |-> record.valueText,
     start_time |-> record.startTime, end_time |-> record.endTime,
     metadata |-> record.metadata, hash |-> hash]
WorkoutRow(workout, hash) ==
    [workout_type |-> workout.workoutType, source_name |-> workout.sourceName,
     source_bundle_id |-> workout.sourceBundle,
     start_time |-> workout.startTime, end_time |-> workout.endTime,
     duration_seconds |-> workout.durationSeconds,
     total_distance |-> workout.totalDistance,
     total_distance_unit |-> IF workout.totalDistance # Nil /\ workout.totalDistance[1] # 0
                             THEN Some("mi") ELSE Nil,
     total_energy_burned |-> workout.totalEnergyBurned,
     metadata |-> workout.metadata, hash |-> hash]

Hashes(rows) == { row.hash : row \in rows }

\* mutant: a conflicting row counts as inserted
InsertRowCount_NoConflict(committed, txRows, hash) == 1

\* mutant: only the committed rows are looked at
InsertRowCount_CommittedOnly(committed, txRows, hash) ==
    IF hash \in Hashes(committed) THEN 0 ELSE 1

\* INSERT ... ON CONFLICT (hash) DO NOTHING RETURNING id, inside the
\* transaction: the rows of the table are the committed ones and those the
\* transaction has inserted; rowCount is 0 on a conflict and 1 otherwise
InsertRowCount(committed, txRows, hash) ==
    IF hash \in Hashes(committed) \cup Hashes(txRows) THEN 0 ELSE 1

\* mutant: the rows of the failed transaction stay
AfterRollback_Keeps(committed, txRows) == committed \cup txRows

\* COMMIT and ROLLBACK: what the table holds afterwards
AfterCommit(committed, txRows) == committed \cup txRows
AfterRollback(committed, txRows) == committed

NoResponse == [status |-> 0, error |-> "", details |-> "",
               insertedRecords |-> 0,
               insertedWorkouts |-> 0, skippedDuplicates |-> 0]
ErrorResponse(status, error) == [NoResponse EXCEPT !.status = status, !.error = error]

\* String(error) of what the route can catch: the SyntaxError of
\* request.json(), the error Postgres answers a refused row with, the
\* error of a connection that was lost
JsonError == "SyntaxError: Unexpected token in JSON"
RowError == "error: invalid input syntax for type timestamp with time zone"
ConnectionError == "Error: Connection terminated unexpectedly"

\* the outer catch: { error: "Sync failed", details: String(error) }, 500
SyncFailed(error) ==
    [ErrorResponse(500, "Sync failed") EXCEPT !.details = error]

IdleHandler ==
    [pc |-> "idle",
     auth |-> NoHeader,
     body |-> [json |-> FALSE, records |-> <<>>, workouts |-> <<>>,
               deletedUUIDs |-> <<>>],
     parsed |-> FALSE,          \* request.json() was called
     began |-> FALSE,           \* BEGIN was sent
     k |-> 0,                   \* records and workouts dealt with so far
     insertedRecords |-> 0, insertedWorkouts |-> 0, skippedDuplicates |-> 0,
     txRecords |-> {}, txWorkouts |-> {},   \* rows inserted, not committed
     hashes |-> <<>>,           \* the hash computed for each item so far
     response |-> NoResponse,
     \* history
     dbFailed |-> FALSE,        \* the database failed while serving it
     replay |-> FALSE,          \* same request as the previous one, which
                               \* was answered with success
     before |-> [health_raw |-> {}, workouts |-> {}]]  \* tables at arrival

IngestInit ==
    /\ health_raw = {}
    /\ workouts = {}
    /\ handler = IdleHandler

\* A request arrives: the auth check, request.json(), pool.connect, BEGIN
ReceiveRequest(auth, body) ==
    /\ handler.pc \in {"idle", "done"}
    /\ LET h0 == [IdleHandler EXCEPT
                    !.auth = auth, !.body = body,
                    !.replay = /\ handler.pc = "done"
                               /\ handler.auth = auth /\ handler.body = body
                               /\ handler.response.status = 200,
                    !.before = [health_raw |-> health_raw, workouts |-> workouts]]
       IN  handler' =
             IF Unauthorized(auth) THEN
                [h0 EXCEPT !.pc = "done",
                           !.response = ErrorResponse(401, "Unauthorized")]
             ELSE IF ~body.json THEN
                [h0 EXCEPT !.pc = "done", !.parsed = TRUE,
                           !.response = SyncFailed(JsonError)]
             ELSE
                [h0 EXCEPT !.pc = "insert", !.parsed = TRUE, !.began = TRUE]
    /\ UNCHANGED <<health_raw, workouts, engineVars, appVars, batchVars, storeVars, txVars>>

\* The next INSERT of the two for loops (the records, then the workouts)
InsertNext ==
    /\ handler.pc = "insert"
    /\ handler.k < Len(handler.body.records) + Len(handler.body.workouts)
    /\ LET k == handler.k + 1
           isRecord == k <= Len(handler.body.records)
           item == IF isRecord THEN handler.body.records[k]
                   ELSE handler.body.workouts[k - Len(handler.body.records)]
           hash == IF isRecord THEN generateRecordHash(item)
                   ELSE generateWorkoutHash(item)
           rowCount == IF isRecord
                       THEN InsertRowCount(health_raw, handler.txRecords, hash)
                       ELSE InsertRowCount(workouts, handler.txWorkouts, hash)
       IN  IF InsertThrows(item) THEN
              \* catch: ROLLBACK, throw; outer catch: 500
              /\ health_raw' = AfterRollback(health_raw, handler.txRecords)
              /\ workouts' = AfterRollback(workouts, handler.txWorkouts)
              /\ handler' = [handler EXCEPT
                                !.pc = "done", !.k = k,
                                !.hashes = Append(@, hash),
                                !.txRecords = {}, !.txWorkouts = {},
                                !.response = SyncFailed(RowError)]
           ELSE
              /\ handler' = [handler EXCEPT
                    !.k = k,
                    !.hashes = Append(@, hash),
                    !.txRecords = IF isRecord /\ rowCount > 0
                                  THEN @ \cup {RecordRow(item, hash)} ELSE @,
                    !.txWorkouts = IF ~isRecord /\ rowCount > 0
                                   THEN @ \cup {WorkoutRow(item, hash)} ELSE @,
                    !.insertedRecords = IF isRecord /\ rowCount > 0 THEN @ + 1 ELSE @,
                    !.insertedWorkouts = IF ~isRecord /\ rowCount > 0 THEN @ + 1 ELSE @,
                    !.skippedDuplicates = IF rowCount > 0 THEN @ ELSE @ + 1]
              /\ UNCHANGED <<health_raw, workouts>>
    /\ UNCHANGED <<engineVars, appVars, batchVars, storeVars, txVars>>

\* COMMIT and the success response
CommitAndRespond ==
    /\ handler.pc = "insert"
    /\ handler.k = Len(handler.body.records) + Len(handler.body.workouts)
    /\ health_raw' = AfterCommit(health_raw, handler.txRecords)
    /\ workouts' = AfterCommit(workouts, handler.txWorkouts)
    /\ handler' = [handler EXCEPT
                      !.pc = "done", !.txRecords = {}, !.txWorkouts = {},
                      !.response = [status |-> 200, error |-> "", details |-> "",
                                    insertedRecords |-> handler.insertedRecords,
                                    insertedWorkouts |-> handler.insertedWorkouts,
                                    skippedDuplicates |-> handler.skippedDuplicates]]
    /\ UNCHANGED <<engineVars, appVars, batchVars, storeVars, txVars>>

IngestNext ==
    \/ \E auth \in Headers, body \in Bodies : ReceiveRequest(auth, body)
    \/ InsertNext
    \/ CommitAndRespond

\* A query of the transaction (an INSERT or the COMMIT) throws because the
\* database fails (connection lost, disk full), whatever the batch holds:
\* catch: ROLLBACK, throw; outer catch: 500
StorageFails ==
    /\ handler.pc = "insert"
    /\ health_raw' = AfterRollback(health_raw, handler.txRecords)
    /\ workouts' = AfterRollback(workouts, handler.txWorkouts)
    /\ handler' = [handler EXCEPT
                      !.pc = "done", !.dbFailed = TRUE,
                      !.txRecords = {}, !.txWorkouts = {},
                      !.response = SyncFailed(ConnectionError)]
    /\ UNCHANGED <<engineVars, appVars, batchVars, storeVars, txVars>>

\* the requests of at most one record, and the one that is no JSON
ReplyBodies ==
    { body \in Bodies :
        /\ Len(body.records) <= 1
        /\ body.workouts = <<>>
        /\ body.deletedUUIDs = <<>> }

\* the ingestion service in front of a database that can fail
ReplyNext ==
    \/ \E auth \in Headers, body \in ReplyBodies : ReceiveRequest(auth, body)
    \/ InsertNext
    \/ CommitAndRespond
    \/ StorageFails


\* Requests of a caller who puts a hash of their own into the items: JSON
\* lets a record or workout carry any further field, here "hash" (the
\* hash of another item, or one no item has)
withHash(item, hash) ==
    [f \in DOMAIN item \cup {"hash"} |-> IF f = "hash" THEN hash ELSE item[f]]
ForgedHashes(items) ==
    { sha256(RecordKey(item)) : item \in items } \cup { sha256("forged") }
ForgedRecords ==
    LET plain == { HR(T1, "count/min", "com.apple.health", Nil), Sleep(T1) }
    IN  plain \cup { withHash(r, h) : r \in plain, h \in ForgedHashes(plain) }
ForgedWorkouts ==
    { Run(T1, Some(5), Nil), withHash(Run(T1, Some(5), Nil), sha256("forged")) }
ForgedBodies ==
    { [json |-> TRUE, records |-> r, workouts |-> w, deletedUUIDs |-> <<>>] :
        r \in SeqsUpTo(ForgedRecords, MaxRecords),
        w \in SeqsUpTo(ForgedWorkouts, MaxWorkoutItems) }

\* the ingestion service serving authorised requests of such a caller
ForgedNext ==
    \/ \E body \in ForgedBodies : ReceiveRequest(Header("Bearer ", API_SECRET), body)
    \/ InsertNext
    \/ CommitAndRespond

\* Requests whose text fields contain the character the hash key is
\* joined with: heart-rate records and runs of the sensors "H10" and
\* "Polar|H10", under the type of the stream or that type followed by
\* "|Polar" (the type and the source name are text columns)
Named(record, type, source) ==
    [record EXCEPT !.recordType = type, !.sourceName = source]
SeparatorRecords ==
    { Named(HR(T1, "count/min", "com.polar", Nil), type, source) :
        type \in {"HKQuantityTypeIdentifierHeartRate",
                  "HKQuantityTypeIdentifierHeartRate|Polar"},
        source \in {"H10", "Polar|H10"} }
SeparatorWorkouts ==
    { [Run(T1, Some(5), Nil) EXCEPT !.workoutType = "HKWorkoutActivityTypeRunning",
                                    !.sourceName = "Polar|H10"],
      [Run(T1, Some(5), Nil) EXCEPT !.workoutType = "HKWorkoutActivityTypeRunning|Polar",
                                    !.sourceName = "H10"] }
SeparatorBodies ==
    { [json |-> TRUE, records |-> r, workouts |-> w, deletedUUIDs |-> <<>>] :
        r \in SeqsUpTo(SeparatorRecords, MaxRecords),
        w \in SeqsUpTo(SeparatorWorkouts, MaxWorkoutItems) }

SeparatorNext ==
    \/ \E body \in SeparatorBodies :
          ReceiveRequest(Header("Bearer ", API_SECRET), body)
    \/ InsertNext
    \/ CommitAndRespond

(* ------------ POST /api/sync: two requests at the same time ------------ *)
\* Every request takes its own connection of the pool and runs its own
\* transaction (READ COMMITTED).  The unique index on record_hash makes an
\* INSERT ... ON CONFLICT DO NOTHING that meets a row of the same hash
\* inserted by a transaction still in progress wait until that
\* transaction ends: it then does nothing if the row was committed and
\* inserts if it was rolled back.  Two transactions that wait for each
\* other are a deadlock; Postgres ends it by failing the query of one.
MaxTxRecords == 2      \* records in one of the concurrent requests

Clients == {1, 2}
Other(c) == IF c = 1 THEN 2 ELSE 1

DeadlockError == "error: deadlock detected"

TxPayloads == { HR(T1, "count/min", "com.apple.health", Nil), Sleep(T1) }
TxBodies == SeqsUpTo(TxPayloads, MaxTxRecords) \ {<<>>}

IdleClient ==
    [pc |-> "idle",
     records |-> <<>>,          \* batch.records
     k |-> 0,                   \* records dealt with so far
     insertedRecords |-> 0, skippedDuplicates |-> 0,
     txRecords |-> {},          \* rows inserted, not committed
     response |-> NoResponse,
     \* history
     overlapped |-> FALSE,      \* the other request was being served
                                \* while this one was
     insertedHashes |-> {},     \* the hashes it counted as inserted
     before |-> {}]             \* health_raw when the request arrived

TxInit == clients = [c \in Clients |-> IdleClient]

\* the hash of the record the next INSERT of the request is for
NextHash(cl) == generateRecordHash(cl.records[cl.k + 1])

\* the INSERT the request is at has to wait for the other transaction
Blocked(c) ==
    /\ clients[c].pc = "insert"
    /\ clients[c].k < Len(clients[c].records)
    /\ NextHash(clients[c]) \notin Hashes(health_raw)
    /\ NextHash(clients[c]) \notin Hashes(clients[c].txRecords)
    /\ NextHash(clients[c]) \in Hashes(clients[Other(c)].txRecords)

\* An authorised request with a batch of records arrives: pool.connect, BEGIN
ClientBegin(c, records) ==
    /\ clients[c].pc \in {"idle", "done"}
    /\ LET meets == clients[Other(c)].pc = "insert"
       IN  clients' = [clients EXCEPT
                ![c] = [IdleClient EXCEPT !.pc = "insert", !.records = records,
                                          !.overlapped = meets,
                                          !.before = health_raw],
                ![Other(c)].overlapped = @ \/ meets]
    /\ UNCHANGED <<engineVars, appVars, batchVars, ingestVars, storeVars>>

\* The next INSERT of the for loop returns
ClientInsert(c) ==
    /\ clients[c].pc = "insert"
    /\ clients[c].k < Len(clients[c].records)
    /\ ~Blocked(c)
    /\ LET cl == clients[c]
           item == cl.records[cl.k + 1]
           hash == generateRecordHash(item)
           rowCount == InsertRowCount(health_raw, cl.txRecords, hash)
       IN  clients' = [clients EXCEPT ![c] =
              [cl EXCEPT
                 !.k = @ + 1,
                 !.txRecords = IF rowCount > 0
                               THEN @ \cup {RecordRow(item, hash)} ELSE @,
                 !.insertedHashes = IF rowCount > 0 THEN @ \cup {hash} ELSE @,
                 !.insertedRecords = IF rowCount > 0 THEN @ + 1 ELSE @,
                 !.skippedDuplicates = IF rowCount > 0 THEN @ ELSE @ + 1]]
    /\ UNCHANGED <<engineVars, appVars, batchVars, ingestVars, storeVars>>

\* COMMIT and the success response
ClientCommit(c) ==
    /\ clients[c].pc = "insert"
    /\ clients[c].k = Len(clients[c].records)
    /\ health_raw' = AfterCommit(health_raw, clients[c].txRecords)
    /\ clients' = [clients EXCEPT ![c] =
          [@ EXCEPT !.pc = "done", !.txRecords = {},
                    !.response = [status |-> 200, error |-> "", details |-> "",
                                  insertedRecords |-> clients[c].insertedRecords,
                                  insertedWorkouts |-> 0,
                                  skippedDuplicates |-> clients[c].skippedDuplicates]]]
    /\ UNCHANGED <<engineVars, appVars, batchVars, storeVars, workouts, handler>>

\* Both INSERTs wait for each other and Postgres fails the one of c:
\* catch: ROLLBACK, throw; outer catch: 500
DeadlockAbort(c) ==
    /\ Blocked(c)
    /\ Blocked(Other(c))
    /\ health_raw' = AfterRollback(health_raw, clients[c].txRecords)
    /\ clients' = [clients EXCEPT ![c] =
          [@ EXCEPT !.pc = "done", !.txRecords = {}, !.insertedHashes = {},
                    !.response = SyncFailed(DeadlockError)]]
    /\ UNCHANGED <<engineVars, appVars, batchVars, storeVars, workouts, handler>>

TxNext ==
    \/ \E c \in Clients, records \in TxBodies : ClientBegin(c, records)
    \/ \E c \in Clients : ClientInsert(c)
    \/ \E c \in Clients : ClientCommit(c)
    \/ \E c \in Clients : DeadlockAbort(c)

(* ------------- HealthKitManager: authorization and observers ----------- *)
MaxAuthCalls == 3      \* requestAuthorization calls in one process

Calls == 1..MaxAuthCalls
IdleCall == [pc |-> "idle", i |-> 0]

\* the app is installed and has not been launched
ObserversInit ==
    /\ launched = FALSE
    /\ isAuthorized = FALSE
    /\ authorizedDefault = FALSE
    /\ observerQueries = [type \in Types |-> 0]
    /\ authCalls = [c \in Calls |-> IdleCall]
    /\ authStarted = 0

obsFrame == UNCHANGED <<engineVars, batchVars, ingestVars, storeVars, txVars,
                        bgVars, confVars>>

\* requestAuthorization up to the await of healthStore.requestAuthorization
\* (HKHealthStore.isHealthDataAvailable() is true on the device)
BeginAuthorization == [IdleCall EXCEPT !.pc = "authorizing"]

\* The process starts: HealthKitManager.init reads the flag of
\* UserDefaults, the observer queries of the process before are gone with
\* it, and the task of the window calls initializeIfAuthorized, which
\* returns at once for an app that was not authorized and calls
\* requestAuthorization otherwise
ProcessStart ==
    /\ launched' = TRUE
    /\ isAuthorized' = authorizedDefault
    /\ observerQueries' = [type \in Types |-> 0]
    /\ authCalls' = [c \in Calls |->
                        IF c = 1 /\ authorizedDefault THEN BeginAuthorization
                        ELSE IdleCall]
    /\ authStarted' = IF authorizedDefault THEN 1 ELSE 0
    /\ UNCHANGED authorizedDefault
    /\ obsFrame

\* "Grant Health Access", the button ContentView shows while
\* !isAuthorized: Task { await requestAuthorization() }
TapGrantAccess(c) ==
    /\ launched
    /\ ~isAuthorized
    /\ authCalls[c].pc = "idle"
    /\ authStarted < MaxAuthCalls
    /\ authCalls' = [authCalls EXCEPT ![c] = BeginAuthorization]
    /\ authStarted' = authStarted + 1
    /\ UNCHANGED <<launched, isAuthorized, authorizedDefault, observerQueries>>
    /\ obsFrame

\* setupObservers for the type at position i of typesToSync: the query is
\* executed and appended to observerQueries, then enableBackgroundDelivery
\* is awaited
executeObserver(queries, i) == [queries EXCEPT ![typesToSync[i]] = @ + 1]

\* healthStore.requestAuthorization returns: the flags are set and
\* setupObservers starts
AuthorizationReturns(c) ==
    /\ authCalls[c].pc = "authorizing"
    /\ isAuthorized' = TRUE
    /\ authorizedDefault' = TRUE
    /\ observerQueries' = executeObserver(observerQueries, 1)
    /\ authCalls' = [authCalls EXCEPT ![c] = [pc |-> "enableDelivery", i |-> 1]]
    /\ UNCHANGED <<launched, authStarted>>
    /\ obsFrame

\* healthStore.requestAuthorization throws: catch
AuthorizationFails(c) ==
    /\ authCalls[c].pc = "authorizing"
    /\ isAuthorized' = FALSE
    /\ authCalls' = [authCalls EXCEPT ![c] = IdleCall]
    /\ UNCHANGED <<launched, authorizedDefault, observerQueries, authStarted>>
    /\ obsFrame

\* enableBackgroundDelivery returns or throws (the outcome is printed):
\* the loop goes on with the next type, or setupObservers returns
BackgroundDeliveryReturns(c) ==
    /\ authCalls[c].pc = "enableDelivery"
    /\ IF authCalls[c].i < Len(typesToSync)
       THEN /\ observerQueries' = executeObserver(observerQueries, authCalls[c].i + 1)
            /\ authCalls' = [authCalls EXCEPT ![c].i = @ + 1]
       ELSE /\ authCalls' = [authCalls EXCEPT ![c] = IdleCall]
            /\ UNCHANGED observerQueries
    /\ UNCHANGED <<launched, isAuthorized, authorizedDefault, authStarted>>
    /\ obsFrame

AuthorizationNext ==
    \/ ProcessStart
    \/ \E c \in Calls : TapGrantAccess(c)
    \/ \E c \in Calls : AuthorizationReturns(c)
    \/ \E c \in Calls : AuthorizationFails(c)
    \/ \E c \in Calls : BackgroundDeliveryReturns(c)

(* ------------- SyncManager.uploadBatchInBackground --------------------- *)
\* A background URLSession hands its upload tasks to a daemon of the
\* system, which runs them whether the app runs, is suspended or was
\* terminated.  The outcome of a task reaches the app through the
\* session's delegate (urlSession(_:task:didCompleteWithError:)) while the
\* app runs; for an app that does not run the system launches it
\* (sessionSendsLaunchEvents) and calls the app delegate's
\* application(_:handleEventsForBackgroundURLSession:completionHandler:),
\* in which the app has to create the session again with a delegate.  An
\* upload task of a background session takes no completion handler.
MaxBackground == 3     \* batches handed to the background session

Slots == 1..MaxBackground

\* URLSession(configuration: config, delegate: nil, delegateQueue: nil)
sessionDelegate == Nil
\* HealthSyncApp declares no UIApplicationDelegateAdaptor
appDelegate == Nil
\* config.sessionSendsLaunchEvents = true
sessionSendsLaunchEvents == TRUE

NoTransfer == [state |-> "none", dataType |-> "none", file |-> FALSE]

\* the app is running, with the bundle content B
AppStart(B) ==
    /\ appState = "running"
    /\ transfers = [b \in Slots |-> NoTransfer]
    /\ reported = {}
    /\ bundleSecret = B
    /\ ObserversInit

AppInit == AppStart(Some("secret"))

\* uploadBatchInBackground(batch): the body is written to a file of the
\* temporary directory, the upload task is created and resumed, the
\* function returns
UploadBatchInBackground(b, type) ==
    /\ appState = "running"
    /\ transfers[b].state = "none"
    /\ \A a \in Slots : a < b => transfers[a].state # "none"
    /\ transfers' = [transfers EXCEPT
                        ![b] = [state |-> "running", dataType |-> type,
                                file |-> TRUE]]
    /\ UNCHANGED <<appState, reported>>
    /\ UNCHANGED <<engineVars, batchVars, ingestVars, storeVars, txVars, confVars, obsVars>>

\* the calls the outcome of a task causes in the code of the app: the
\* delegate of the session, if it has one, of a running app; the app
\* delegate, if there is one, of an app launched for the event
CompletionCalls(running, b, outcome) ==
    IF running
    THEN (IF sessionDelegate # Nil THEN {<<b, outcome>>} ELSE {})
    ELSE (IF sessionSendsLaunchEvents /\ appDelegate # Nil /\ sessionDelegate # Nil
          THEN {<<b, outcome>>} ELSE {})

BackgroundOutcomes == {"succeeded", "failed"}

\* The daemon finishes a transfer (response received, or the transfer
\* failed for good); an app that does not run is launched in the
\* background for the event
TransferCompletes(b, outcome) ==
    /\ transfers[b].state = "running"
    /\ transfers' = [transfers EXCEPT ![b].state = outcome]
    /\ reported' = reported \cup CompletionCalls(appState = "running", b, outcome)
    /\ appState' = IF sessionSendsLaunchEvents THEN "running" ELSE appState
    /\ UNCHANGED <<engineVars, batchVars, ingestVars, storeVars, txVars, confVars, obsVars>>

\* the app goes to the background and is suspended
Suspend ==
    /\ appState = "running"
    /\ appState' = "suspended"
    /\ UNCHANGED <<transfers, reported>>
    /\ UNCHANGED <<engineVars, batchVars, ingestVars, storeVars, txVars, confVars, obsVars>>

\* the system terminates the suspended app: SyncManager and what it
\* holds in memory are gone
Terminate ==
    /\ appState = "suspended"
    /\ appState' = "terminated"
    /\ UNCHANGED <<transfers, reported>>
    /\ UNCHANGED <<engineVars, batchVars, ingestVars, storeVars, txVars, confVars, obsVars>>

\* the app is resumed or launched again (HealthSyncApp creates a new
\* SyncManager; nothing about transfers is read from storage)
Relaunch ==
    /\ appState \in {"suspended", "terminated"}
    /\ appState' = "running"
    /\ UNCHANGED <<transfers, reported>>
    /\ UNCHANGED <<engineVars, batchVars, ingestVars, storeVars, txVars, confVars, obsVars>>

BackgroundNext ==
    \/ \E b \in Slots, type \in Types : UploadBatchInBackground(b, type)
    \/ \E b \in Slots, outcome \in BackgroundOutcomes : TransferCompletes(b, outcome)
    \/ Suspend
    \/ Terminate
    \/ Relaunch

\* every transfer ends, a process that does not run is started again
BackgroundFairness ==
    /\ \A b \in Slots :
          WF_vars(\E outcome \in BackgroundOutcomes : TransferCompletes(b, outcome))
    /\ WF_vars(Relaunch)

(* ------------------- SyncManager.uploadBatch: its errors --------------- *)
\* What uploadBatch throws: SyncError.invalidURL, the error of
\* encoder.encode, the error of URLSession.data(for:),
\* SyncError.invalidResponse, SyncError.serverError
UploadBatchErrors ==
    {"Invalid server URL", "encoding error", "transport error",
     "Invalid server response", "Server error (500)"}

\* SyncConfig.apiSecret: the secret of Secrets.plist, or fatalError
apiSecretTraps == bundleSecret = Nil

\* uploadBatch reads SyncConfig.apiSecret for the Authorization header and
\* Secrets.plist or its key is missing: fatalError ends the process, with
\* what it held in memory
ApiSecretFatal(t) ==
    /\ tasks[t].pc = "upload"
    /\ apiSecretTraps
    /\ appState' = "crashed"
    /\ tasks' = [u \in Tasks |-> IdleTask]
    /\ typeStatuses' = [type \in Types |-> NoError]
    /\ uploadQueue' = <<>>
    /\ isProcessingQueue' = FALSE
    /\ isSyncing' = FALSE
    /\ pendingBatches' = 0
    /\ lastSyncTime' = 0
    /\ lastError' = NoError
    /\ queueTags' = <<>>
    /\ unsynced' = {}
    /\ UNCHANGED <<hkLog, anchors, lastSyncTimes, acked>>
    /\ UNCHANGED <<transfers, reported, confVars, obsVars>>
    /\ UNCHANGED <<batchVars, ingestVars, storeVars, txVars>>

\* fetchAndSync calls for the quantity type, one at a time, in an app
\* whose bundle has the secret or lacks it
CredentialNext ==
    \/ \E type \in RecordTypes : \E entry \in NewEntries(type) : HKAdd(type, entry)
    \/ appState = "running" /\ \E type \in RecordTypes : StartFetchAndSync(1, type)
    \/ appState = "running" /\ QueryReturns(1)
    \/ appState = "running" /\ QueryFails(1)
    \/ appState = "running" /\ ~apiSecretTraps /\ UploadSucceeds(1)
    \/ /\ appState = "running" /\ ~apiSecretTraps
       /\ \E error \in UploadBatchErrors : UploadFails(1, error)
    \/ appState = "running" /\ ApiSecretFatal(1)
    \/ appState = "running" /\ RefreshReturns(1)
    \/ appState = "running" /\ SetAnchor(1)

(* ------------------------------ AnchorStore ---------------------------- *)
MaxAnchor == 2         \* anchors handed to setAnchor: 1..MaxAnchor

keyPrefix == "healthsync.anchor."
lastSyncKeyPrefix == "healthsync.lastsync."

\* mutant: the type is left out of the key
AnchorKey_Shared(type) == keyPrefix

\* keyPrefix + type.rawValue
AnchorKey(type) == keyPrefix \o type
LastSyncKey(type) == lastSyncKeyPrefix \o type

StoreKeys == { AnchorKey(type) : type \in Types }
             \cup { LastSyncKey(type) : type \in Types }

Missing == <<"missing">>   \* no object for the key

\* NSKeyedArchiver.archivedData(withRootObject:) and
\* NSKeyedUnarchiver.unarchivedObject(ofClass: HKQueryAnchor.self, from:),
\* which gives nil for data that is no archive of an anchor
archivedData(anchor) == <<"archive", "HKQueryAnchor", anchor>>
unarchivedObject(data) ==
    IF Len(data) = 3 /\ data[1] = "archive" /\ data[2] = "HKQueryAnchor"
    THEN data[3] ELSE NoAnchor

\* UserDefaults: set(_:forKey:), removeObject(forKey:), data(forKey:),
\* double(forKey:)
setForKey(D, value, key) == [D EXCEPT ![key] = value]
removeObject(D, key) == [D EXCEPT ![key] = Missing]
dataForKey(D, key) ==
    IF D[key] # Missing /\ D[key][1] = "archive" THEN D[key] ELSE Missing
doubleForKey(D, key) ==
    IF D[key] # Missing /\ D[key][1] = "double" THEN D[key][2] ELSE 0

getAnchorFor(D, type) ==
    IF dataForKey(D, AnchorKey(type)) = Missing THEN NoAnchor
    ELSE unarchivedObject(dataForKey(D, AnchorKey(type)))

setAnchorFor(D, anchor, type) ==
    IF anchor # NoAnchor
    THEN setForKey(D, archivedData(anchor), AnchorKey(type))
    ELSE removeObject(D, AnchorKey(type))

clearAnchorFor(D, type) == removeObject(D, AnchorKey(type))

getLastSyncTimeFor(D, type) ==
    IF doubleForKey(D, LastSyncKey(type)) > 0
    THEN Some(doubleForKey(D, LastSyncKey(type))) ELSE Nil

setLastSyncTimeFor(D, date, type) ==
    setForKey(D, <<"double", date>>, LastSyncKey(type))

NoCall == [op |-> "none", type |-> "none", result |-> NoAnchor,
           afterRestart |-> FALSE]   \* the call before was a restart

StoreInit ==
    /\ defaults = [key \in StoreKeys |-> Missing]
    /\ lastSet = [type \in Types |-> NoAnchor]
    /\ got = NoCall

StoreGetAnchor(type) ==
    /\ got' = [op |-> "getAnchor", type |-> type,
               result |-> getAnchorFor(defaults, type),
               afterRestart |-> got.op = "restart"]
    /\ UNCHANGED <<defaults, lastSet, engineVars, appVars, batchVars, ingestVars, txVars>>

StoreSetAnchor(anchor, type) ==
    /\ defaults' = setAnchorFor(defaults, anchor, type)
    /\ lastSet' = [lastSet EXCEPT ![type] = anchor]
    /\ got' = [NoCall EXCEPT !.op = "setAnchor", !.type = type]
    /\ UNCHANGED <<engineVars, appVars, batchVars, ingestVars, txVars>>

StoreClearAnchor(type) ==
    /\ defaults' = clearAnchorFor(defaults, type)
    /\ lastSet' = [lastSet EXCEPT ![type] = NoAnchor]
    /\ got' = [NoCall EXCEPT !.op = "clearAnchor", !.type = type]
    /\ UNCHANGED <<engineVars, appVars, batchVars, ingestVars, txVars>>

StoreSetLastSyncTime(type) ==
    /\ defaults' = setLastSyncTimeFor(defaults, now, type)
    /\ got' = [NoCall EXCEPT !.op = "setLastSyncTime", !.type = type]
    /\ UNCHANGED <<lastSet, engineVars, appVars, batchVars, ingestVars, txVars>>

\* The process ends and a new one creates its AnchorStore: the actor keeps
\* nothing in memory, UserDefaults is persistent
StoreRestart ==
    /\ got' = [NoCall EXCEPT !.op = "restart"]
    /\ UNCHANGED <<defaults, lastSet, engineVars, appVars, batchVars, ingestVars, txVars>>

StoreNext ==
    \/ \E type \in Types : StoreGetAnchor(type)
    \/ \E type \in Types, anchor \in {NoAnchor} \cup 1..MaxAnchor :
          StoreSetAnchor(anchor, type)
    \/ \E type \in Types : StoreClearAnchor(type)
    \/ \E type \in Types : StoreSetLastSyncTime(type)
    \/ StoreRestart

(* --------------------------- specification ----------------------------- *)
\* The engine with the calls of TS running (one call at a time per element
\* of TS), over the data types TY.
EngineNext(TS, TY) ==
    \/ \E type \in TY : \E entry \in NewEntries(type) : HKAdd(type, entry)
    \/ \E t \in TS, type \in TY : StartFetchAndSync(t, type)
    \/ \E t \in TS, type \in TY : StartResetAndResync(t, type)
    \/ \E t \in TS : QueryReturns(t)
    \/ \E t \in TS : QueryFails(t)
    \/ \E t \in TS : UploadSucceeds(t)
    \/ \E t \in TS, error \in UploadErrors : UploadFails(t, error)
    \/ \E t \in TS : RefreshReturns(t)
    \/ \E t \in TS : SetAnchor(t)

Next ==
    \/ EngineNext({1}, Types)
    \/ Crash

Init == EngineInit /\ BatchIdle /\ IngestInit /\ StoreInit /\ TxInit /\ AppInit

Spec == Init /\ [][Next]_vars

\* syncData applied to bounded inputs
BatchStart == EngineInit /\ BatchInit /\ IngestInit /\ StoreInit /\ TxInit /\ AppInit

BatchSpec == BatchStart /\ [][BatchNext]_vars

\* the ingestion service serving one request after the other
IngestSpec == Init /\ [][IngestNext]_vars

\* The engine while the process stays alive, with the scheduling the claims
\* on delivery assume: every started call runs on, every data type keeps
\* being triggered, and for every data type queries and uploads that are
\* attempted again and again succeed again and again.
LiveNext == EngineNext({1}, RecordTypes)

Fairness ==
    /\ WF_vars(RefreshReturns(1))
    /\ WF_vars(SetAnchor(1))
    /\ WF_vars(UploadSucceeds(1) \/ \E e \in UploadErrors : UploadFails(1, e))
    /\ WF_vars(QueryReturns(1) \/ QueryFails(1))
    /\ \A type \in RecordTypes :
          /\ SF_vars(StartFetchAndSync(1, type))
          /\ SF_vars(QueryReturns(1) /\ tasks[1].type = type)
          /\ SF_vars(UploadSucceeds(1) /\ tasks[1].batch.dataType = type)

FairSpec == Init /\ [][LiveNext]_vars /\ Fairness

\* The observer queries: one notification at a time is handled, for the
\* quantity type.
ObserverNext ==
    \/ \E type \in RecordTypes : \E entry \in NewEntries(type) : HKAdd(type, entry)
    \/ \E type \in RecordTypes : ObserverTriggered(1, type)
    \/ \E type \in RecordTypes : ObserverError(1, type)
    \/ QueryReturns(1)
    \/ QueryFails(1)
    \/ UploadSucceeds(1)
    \/ \E error \in UploadErrors : UploadFails(1, error)
    \/ RefreshReturns(1)
    \/ SetAnchor(1)

ObserverSpec == Init /\ [][ObserverNext]_vars

\* Two calls at a time on the MainActor: the first one is a syncAll or a
\* resetAndResync of the quantity type, the second one a fetchAndSync of
\* the workout type.
\* No call is started while MaxQueue batches wait in the queue.
ConcNextWith(errors) ==
    \/ Len(uploadQueue) < MaxQueue /\ StartSyncAll(1, typesToSync)
    \/ /\ Len(uploadQueue) < MaxQueue
       /\ \E type \in RecordTypes : StartResetAndResync(1, type)
    \/ /\ Len(uploadQueue) < MaxQueue
       /\ \E type \in Types \ RecordTypes : StartFetchAndSync(2, type)
    \/ \E t \in Tasks : QueryReturns(t)
    \/ \E t \in Tasks : QueryFails(t)
    \/ \E t \in Tasks : UploadSucceeds(t)
    \/ \E t \in Tasks, error \in errors : UploadFails(t, error)
    \/ \E t \in Tasks : RefreshReturns(t)
    \/ \E t \in Tasks : SetAnchor(t)

ConcNext == ConcNextWith(UploadErrors)

\* ... with a server that refuses the credential of some uploads
RejectNext == ConcNextWith(AuthErrors)

\* HealthKit holds ConcSamples heart-rate samples of the first day of the
\* window and one run recorded by the watch
ConcLog ==
    [type \in Types |->
        IF type \in RecordTypes
        THEN [k \in 1..ConcSamples |->
                 [kind |-> "sample", startDate |-> now - backfillDays,
                  sourceName |-> "Apple Watch", activity |-> "none"]]
        ELSE <<[kind |-> "sample", startDate |-> now,
                sourceName |-> "Apple Watch", activity |-> "running"]>>]

ConcInit == EngineStart(ConcLog) /\ BatchIdle /\ IngestInit /\ StoreInit /\ TxInit /\ AppInit

ReplySpec == Init /\ [][ReplyNext]_vars

ForgedSpec == Init /\ [][ForgedNext]_vars

SeparatorSpec == Init /\ [][SeparatorNext]_vars

\* the ingestion service serving two requests at a time
TxSpec == Init /\ [][TxNext]_vars

\* Two calls of fetchAndSync at a time for the quantity type (observer
\* notifications, a manual sync) while HealthKit records new samples; no
\* reset, no restart.  No call is started while MaxQueue batches wait.
OverlapNext ==
    \/ \E type \in RecordTypes : \E entry \in NewEntries(type) : HKAdd(type, entry)
    \/ /\ Len(uploadQueue) < MaxQueue
       /\ \E t \in Tasks, type \in RecordTypes : StartFetchAndSync(t, type)
    \/ \E t \in Tasks : QueryReturns(t)
    \/ \E t \in Tasks : QueryFails(t)
    \/ \E t \in Tasks : UploadSucceeds(t)
    \/ \E t \in Tasks, error \in UploadErrors : UploadFails(t, error)
    \/ \E t \in Tasks : RefreshReturns(t)
    \/ \E t \in Tasks : SetAnchor(t)

OverlapSpec == Init /\ [][OverlapNext]_vars

\* The record stream and the workout stream at the same time: fetchAndSync
\* of the quantity type as call 1 and of the workout type as call 2, while
\* HealthKit records samples, workouts and deletions.  No call is started
\* while MaxQueue batches wait.
StreamsNext ==
    \/ \E type \in Types : \E entry \in NewEntries(type) : HKAdd(type, entry)
    \/ /\ Len(uploadQueue) < MaxQueue
       /\ \E type \in RecordTypes : StartFetchAndSync(1, type)
    \/ /\ Len(uploadQueue) < MaxQueue
       /\ \E type \in Types \ RecordTypes : StartFetchAndSync(2, type)
    \/ \E t \in Tasks : QueryReturns(t)
    \/ \E t \in Tasks : QueryFails(t)
    \/ \E t \in Tasks : UploadSucceeds(t)
    \/ \E t \in Tasks, error \in UploadErrors : UploadFails(t, error)
    \/ \E t \in Tasks : RefreshReturns(t)
    \/ \E t \in Tasks : SetAnchor(t)

StreamsSpec == Init /\ [][StreamsNext]_vars

\* The workout stream on its own: HealthKit records workouts of any
\* activity type from the watch and from other sources, and deletions; one
\* fetchAndSync at a time runs for the stream.
MaxWorkoutLog == 2     \* entries HealthKit holds for the workout type here

WatchSources == {"Apple Watch", "My WATCH"}
OtherSources == {"iPhone"}
WorkoutEntries ==
    { [kind |-> "sample", startDate |-> now, sourceName |-> n, activity |-> a] :
        n \in WatchSources, a \in ActivityTypes }
    \cup
    { [kind |-> "sample", startDate |-> now, sourceName |-> n, activity |-> a] :
        n \in OtherSources, a \in {"running", "other"} }
    \cup { [kind |-> "deleted", startDate |-> now,
            sourceName |-> "Apple Watch", activity |-> "other"] }

RecordWorkout(entry) ==
    /\ Len(hkLog["HKWorkoutType"]) < MaxWorkoutLog
    /\ hkLog' = [hkLog EXCEPT !["HKWorkoutType"] = Append(@, entry)]
    /\ UNCHANGED nonEngineVars
    /\ UNCHANGED <<anchors, lastSyncTimes, typeStatuses, tasks,
                   uploadQueue, queueTags, isProcessingQueue, isSyncing,
                   pendingBatches, lastSyncTime, lastError, acked, unsynced>>

WorkoutNext ==
    \/ \E entry \in WorkoutEntries : RecordWorkout(entry)
    \/ StartFetchAndSync(1, "HKWorkoutType")
    \/ QueryReturns(1)
    \/ QueryFails(1)
    \/ UploadSucceeds(1)
    \/ \E error \in UploadErrors : UploadFails(1, error)
    \/ RefreshReturns(1)
    \/ SetAnchor(1)

WorkoutSpec == Init /\ [][WorkoutNext]_vars

CredentialInit ==
    /\ EngineInit /\ BatchIdle /\ IngestInit /\ StoreInit /\ TxInit
    /\ \E B \in {Nil, Some("secret")} : AppStart(B)

CredentialSpec == CredentialInit /\ [][CredentialNext]_vars

\* authorization and observer registration on their own
AuthorizationSpec == Init /\ [][AuthorizationNext]_vars

\* deferred delivery on its own
BackgroundSpec == Init /\ [][BackgroundNext]_vars /\ BackgroundFairness

\* the AnchorStore called by one caller after the other
StoreSpec == Init /\ [][StoreNext]_vars

ConcSpec == ConcInit /\ [][ConcNext]_vars

RejectSpec == ConcInit /\ [][RejectNext]_vars

\* ... where every HTTP request of uploadBatch returns, with a response or
\* with an error (URLSession times a request out)
UploadsReturn ==
    \A t \in Tasks :
        WF_vars(UploadSucceeds(t) \/ \E error \in UploadErrors : UploadFails(t, error))

ConcFairSpec == ConcSpec /\ UploadsReturn

(* ------------------------------ the claims ----------------------------- *)
\* A sample of the source that every fetch seeing it for the first time
\* returns and syncData puts into a batch: it starts inside the backfill
\* window and, for a workout, passes shouldSync.
Qualifies(type, i) ==
    LET entry == hkLog[type][i]
    IN  /\ entry.kind = "sample"
        /\ entry.startDate >= now - backfillDays
        /\ type \notin RecordTypes => shouldSync(entry)

Covered(type, i) == anchors[type] # NoAnchor /\ i <= anchors[type]

\* C1: in every reachable state (also after a crash and restart) the
\* persisted anchor of a type covers only samples for which the ingestion
\* endpoint has answered a batch holding them with success.
C1_AnchorCoversOnlyAcked ==
    \A type \in Types : \A i \in 1..Len(hkLog[type]) :
        (Covered(type, i) /\ Qualifies(type, i)) => <<type, i>> \in acked

\* C2: when a batch built by a fetchAndSync call failed to upload, the
\* call ends with the persisted anchor of its type equal to the anchor it
\* read when it started.
C2_FailedUploadKeepsAnchor ==
    [][\A t \in Tasks :
          (SetAnchor(t) /\ tasks[t].op = "fetchAndSync" /\ tasks[t].failed)
             => anchors'[tasks[t].type] = tasks[t].anchor]_vars

\* C3: every qualifying sample of the source ends up stored by the
\* ingestion service (triggers keep occurring, uploads succeed in the end).
C3_EventuallyStored ==
    \A type \in RecordTypes : \A i \in 1..MaxLog :
        (i <= Len(hkLog[type]) /\ Qualifies(type, i)) ~> (<<type, i>> \in acked)

\* C9: syncData splits n > 0 payloads into ceil(n / batchSize) batches,
\* all of batchSize payloads but the last, which holds the remaining
\* 1..batchSize; the batches in queueing order concatenate to the payloads;
\* 2500 payloads with batchSize 1000 give batches of 1000, 1000 and 500.
RECURSIVE Concat(_)
Concat(seqs) == IF seqs = <<>> THEN <<>> ELSE Head(seqs) \o Concat(Tail(seqs))
CeilDiv(n, d) == (n + d - 1) \div d
BatchSizes(bs) == [k \in 1..Len(bs) |-> Len(BatchItems(bs[k]))]
C9_Chunking ==
    (batchOut # Nil /\ batchIn.items # <<>>) =>
        LET out == batchOut[1]
            n == Len(batchIn.items)
            k == Len(out)
        IN  /\ k = CeilDiv(n, batchIn.bs)
            /\ \A j \in 1..(k - 1) : Len(BatchItems(out[j])) = batchIn.bs
            /\ Len(BatchItems(out[k])) \in 1..batchIn.bs
            /\ Concat([j \in 1..k |-> BatchItems(out[j])]) = batchIn.items
            /\ (n = 2500 /\ batchIn.bs = 1000) =>
                   BatchSizes(out) = <<1000, 1000, 500>>

\* syncData has split payloads into several batches, the last one short
C9_Witness ==
    /\ batchOut # Nil
    /\ Len(batchOut[1]) >= 3
    /\ Len(BatchItems(batchOut[1][Len(batchOut[1])])) < batchIn.bs

\* C10: of the batches built from one fetch only the first carries the
\* deletion identifiers, the later ones carry none, so every identifier is
\* in exactly one batch; deletions without any payload give exactly one
\* batch, which carries the deletions and nothing else.
C10_DeletionsInFirstBatchOnly ==
    batchOut # Nil =>
        LET out == batchOut[1]
            del == batchIn.deletedUUIDs
        IN  /\ out # <<>> =>
                  /\ out[1].deletedUUIDs = del
                  /\ \A j \in 2..Len(out) : out[j].deletedUUIDs = <<>>
            /\ \A u \in ToSet(del) :
                  Cardinality({ j \in 1..Len(out) :
                                 u \in ToSet(out[j].deletedUUIDs) }) = 1
            /\ (batchIn.items = <<>> /\ del # <<>>) =>
                  /\ Len(out) = 1
                  /\ BatchItems(out[1]) = <<>>
                  /\ out[1].records = Nil /\ out[1].workouts = Nil

\* several batches were built from payloads that came with deletions
C10_Witness ==
    /\ batchOut # Nil
    /\ Len(batchOut[1]) >= 2
    /\ batchIn.deletedUUIDs # <<>>

\* C4: ingesting a batch a second time, after it was ingested with
\* success, is answered with success, leaves both tables as the first
\* ingestion left them, inserts nothing and counts every item a duplicate.
Items(body) == Len(body.records) + Len(body.workouts)
TablesAsBefore ==
    /\ health_raw = handler.before.health_raw
    /\ workouts = handler.before.workouts
C4_IngestIdempotent ==
    (handler.pc = "done" /\ handler.replay) =>
        /\ handler.response.status = 200
        /\ TablesAsBefore
        /\ handler.response.insertedRecords = 0
        /\ handler.response.insertedWorkouts = 0
        /\ handler.response.skippedDuplicates = Items(handler.body)

\* a batch of records and workouts has been ingested a second time
C4_Witness ==
    /\ handler.pc = "done" /\ handler.replay
    /\ handler.body.records # <<>> /\ handler.body.workouts # <<>>
    /\ health_raw # {} /\ workouts # {}

\* C5: when one record or workout of a batch cannot be stored, the caller
\* gets an error and none of the items of the batch is stored, those
\* inserted before the failing one included.
HasUnprocessable(body) ==
    \/ \E k \in 1..Len(body.records) : body.records[k].startTime = BadTime
    \/ \E k \in 1..Len(body.workouts) : body.workouts[k].startTime = BadTime
C5_AllOrNothing ==
    (handler.pc = "done" /\ handler.began /\ HasUnprocessable(handler.body)) =>
        /\ handler.response.status = 500
        /\ TablesAsBefore

\* the failing item came after an item the transaction had inserted
C5_Witness ==
    /\ handler.pc = "done" /\ handler.began
    /\ handler.response.status = 500
    /\ handler.insertedRecords > 0

\* C6: a request whose Authorization header is missing, does not start
\* with "Bearer " or carries another token than the secret is answered
\* 401 before anything else is done: the body is not parsed, no
\* transaction is opened, the tables hold what they held.
BadCredential(h) ==
    \/ h = NoHeader
    \/ h.head7 # "Bearer "
    \/ h.rest # "CHANGE_ME"
C6_UnauthorizedDoesNothing ==
    (handler.pc = "done" /\ BadCredential(handler.auth)) =>
        /\ handler.response.status = 401
        /\ ~handler.parsed
        /\ ~handler.began
        /\ handler.k = 0
        /\ TablesAsBefore
        /\ Cardinality(health_raw) = Cardinality(handler.before.health_raw)

\* a Bearer header with a wrong token was refused; its batch held a
\* record the table does not hold
C6_Witness ==
    /\ handler.pc = "done"
    /\ handler.auth.head7 = "Bearer " /\ handler.auth.rest # API_SECRET
    /\ handler.response.status = 401
    /\ handler.body.json /\ handler.body.records # <<>>
    /\ generateRecordHash(handler.body.records[1]) \notin Hashes(health_raw)

\* C7: records that agree on (type, source, start, end, value or else
\* text) get the same hash whatever their unit, bundle and metadata;
\* workouts that agree on (type, source, start, end, duration) get the
\* same hash whatever their distance, energy, statistics and metadata.
\* Checked on the hashes the handler computed and the hashes stored.
RecordIdentity(r) ==
    <<r.recordType, r.sourceName, r.startTime, r.endTime,
      IF r.value # Nil THEN <<"value", r.value[1]>>
                       ELSE <<"text", r.valueText>> >>
RowIdentity(row) ==
    <<row.record_type, row.source_name, row.start_time, row.end_time,
      IF row.value_numeric # Nil THEN <<"value", row.value_numeric[1]>>
                                 ELSE <<"text", row.value_text>> >>
WorkoutIdentity(w) ==
    <<w.workoutType, w.sourceName, w.startTime, w.endTime, w.durationSeconds>>
WorkoutRowIdentity(row) ==
    <<row.workout_type, row.source_name, row.start_time, row.end_time,
      row.duration_seconds>>
HashedRecords ==      \* (identity, hash) of the records hashed and stored
    { <<RecordIdentity(handler.body.records[k]), handler.hashes[k]>> :
        k \in 1..Min(Len(handler.hashes), Len(handler.body.records)) }
    \cup { <<RowIdentity(row), row.hash>> : row \in health_raw \cup handler.txRecords }
HashedWorkouts ==
    { <<WorkoutIdentity(handler.body.workouts[k - Len(handler.body.records)]),
        handler.hashes[k]>> :
        k \in (Len(handler.body.records) + 1)..Len(handler.hashes) }
    \cup { <<WorkoutRowIdentity(row), row.hash>> : row \in workouts \cup handler.txWorkouts }
C7_HashOfIdentityFields ==
    /\ \A p, q \in HashedRecords : p[1] = q[1] => p[2] = q[2]
    /\ \A p, q \in HashedWorkouts : p[1] = q[1] => p[2] = q[2]

\* a record was hashed that agrees with a stored row on the identity
\* fields and differs from it in unit, bundle and metadata, and so was a
\* workout that differs from a stored one in distance and metadata
C7_Witness ==
    /\ handler.pc = "insert"
    /\ \E k \in 1..Min(Len(handler.hashes), Len(handler.body.records)) :
         \E row \in health_raw :
            LET r == handler.body.records[k]
            IN  /\ RecordIdentity(r) = RowIdentity(row)
                /\ r.unit # row.unit
                /\ r.sourceBundle # row.source_bundle_id
                /\ r.metadata # row.metadata
    /\ \E k \in (Len(handler.body.records) + 1)..Len(handler.hashes) :
         \E row \in workouts :
            LET w == handler.body.workouts[k - Len(handler.body.records)]
            IN  /\ WorkoutIdentity(w) = WorkoutRowIdentity(row)
                /\ w.totalDistance # row.total_distance
                /\ w.metadata # row.metadata

\* C8: the backfill window restricts a fetch exactly when the fetch has no
\* anchor: without an anchor the query returns the samples of the store
\* that start inside the window and no older one, with an anchor it
\* returns every sample recorded after the anchor, whatever its date.
PostQuery == {"upload", "refresh", "setAnchor"}
C8_WindowIffNoCursor ==
    \A t \in Tasks :
        LET tk == tasks[t]
            log == hkLog[tk.type]
        IN  /\ tk.pc = "query" =>
                  ((tk.predicate # NoPredicate) <=> (tk.anchor = NoAnchor))
            /\ tk.pc \in PostQuery =>
                  IF tk.anchor = NoAnchor
                  THEN ToSet(tk.samples) =
                         { i \in 1..tk.newAnchor :
                             /\ log[i].kind = "sample"
                             /\ log[i].startDate >= now - backfillDays }
                  ELSE ToSet(tk.samples) =
                         { i \in (tk.anchor + 1)..tk.newAnchor :
                             log[i].kind = "sample" }

\* a fetch with an anchor has returned a sample older than the window,
\* after a fetch without anchor had left out one that the store holds
C8_Witness ==
    \E t \in Tasks :
        LET tk == tasks[t]
            log == hkLog[tk.type]
            Old(i) == log[i].kind = "sample" /\ log[i].startDate < now - backfillDays
        IN  /\ tk.pc \in PostQuery
            /\ tk.anchor # NoAnchor
            /\ \E k \in 1..Len(tk.samples) : Old(tk.samples[k])
            /\ \E i \in 1..tk.anchor : Old(i) /\ <<tk.type, i>> \notin acked

\* C11: every notification an observer query delivers is acknowledged
\* exactly once, whatever the observer reported and whatever the fetch it
\* triggered does: the acknowledgment does not wait for the fetch and the
\* upload to complete.  So at every suspension point of the notification's
\* Task, and after it, completionHandler has been called once.
C11_NotificationAcknowledged ==
    \A t \in Tasks : tasks[t].notified => tasks[t].acks = 1

\* C12: at most one uploadBatch is in flight at any time.
C12_OneUploadInFlight ==
    Cardinality({ t \in Tasks : tasks[t].pc = "upload" }) <= 1

\* a queueBatch call arrived while another call was suspended in an upload:
\* its batch waits in the queue and the call went on
C12_Witness ==
    \E t, u \in Tasks :
        /\ tasks[t].pc = "upload"
        /\ uploadQueue # <<>>
        /\ tasks[u].pc = "setAnchor" /\ tasks[u].built > 0

\* C13: of two batches of the same stream the one queued first is uploaded
\* first, and its upload has returned before the upload of the other one
\* starts: while a batch is being uploaded no batch of its stream is being
\* uploaded as well, and every batch of its stream still in the queue was
\* queued after it.
C13_StreamOrder ==
    \A t \in Tasks :
        tasks[t].pc = "upload" =>
            /\ \A u \in Tasks \ {t} :
                  tasks[u].pc = "upload" =>
                      tasks[u].batch.dataType # tasks[t].batch.dataType
            /\ \A k \in 1..Len(uploadQueue) :
                  uploadQueue[k].dataType = tasks[t].batch.dataType =>
                      queueTags[k] > tasks[t].tag

\* a call of another stream uploads the first of two batches of one fetch,
\* the second one waits in the queue
C13_Witness ==
    \E t \in Tasks :
        /\ tasks[t].pc = "upload"
        /\ tasks[t].type # tasks[t].batch.dataType
        /\ \E k \in 1..Len(uploadQueue) :
              uploadQueue[k].dataType = tasks[t].batch.dataType

\* C14: a fetch that yields k > 1 batches causes one refresh request,
\* issued after the last of the k batches, not one per batch.
C14_SingleRefreshPerFetch ==
    \A t \in Tasks :
        LET tk == tasks[t]
        IN  tk.built > 1 =>
               /\ tk.refreshes <= 1
               /\ tk.pc = "refresh" => tk.chunks = <<>>
               /\ tk.pc = "setAnchor" => tk.refreshes = 1

\* C15: at most one refresh of the materialized view is in flight.
C15_OneRefreshInFlight == Cardinality(refreshesInFlight) <= 1

\* C16 as stated: no step of a resetAndResync call on a stream changes the
\* persisted anchor or last-sync time of another stream, and its fetch
\* uses no anchor and the backfill window.
ResetStep(t) ==
    /\ tasks'[t] # tasks[t]
    /\ tasks[t].op = "resetAndResync" \/ tasks'[t].op = "resetAndResync"
ResetStream(t) ==
    IF tasks[t].op = "resetAndResync" THEN tasks[t].type ELSE tasks'[t].type
ResetFetch(t) ==
    (tasks'[t].op = "resetAndResync" /\ tasks'[t].pc = "query") =>
        /\ anchors'[tasks'[t].type] = NoAnchor
        /\ tasks'[t].anchor = NoAnchor
        /\ tasks'[t].predicate = now - backfillDays
C16_ResetTouchesOnlyItsStream ==
    [][\A t \in Tasks :
          ResetStep(t) =>
             /\ ResetFetch(t)
             /\ \A T \in Types \ {ResetStream(t)} :
                   /\ anchors'[T] = anchors[T]
                   /\ lastSyncTimes'[T] = lastSyncTimes[T]]_vars

\* C16 amended: the anchors of the other streams are unchanged; the
\* last-sync time of another stream changes only when the processQueue
\* loop the call runs uploads with success a batch of that stream which
\* another call had queued.
C16_ResetFrame ==
    [][\A t \in Tasks :
          ResetStep(t) =>
             /\ ResetFetch(t)
             /\ \A T \in Types \ {ResetStream(t)} :
                   /\ anchors'[T] = anchors[T]
                   /\ lastSyncTimes'[T] # lastSyncTimes[T] =>
                         /\ tasks[t].pc = "upload"
                         /\ tasks[t].batch.dataType = T
                         /\ ~tasks[t].ownBatch]_vars

\* a resetAndResync of one stream is fetching while the other stream has
\* an anchor and a last-sync time
C16_Witness ==
    \E t \in Tasks :
        /\ tasks[t].op = "resetAndResync" /\ tasks[t].pc = "query"
        /\ \E T \in Types \ {tasks[t].type} :
              anchors[T] # NoAnchor /\ lastSyncTimes[T] # 0

\* C17: an error of one stream does not keep the others from being
\* processed: when a fetchAndSync of syncAll ends, with a fetch error or
\* after a failed upload as well, syncAll fetches the next type; when an
\* upload fails, processQueue uploads the batch queued behind it.
C17_ErrorsIsolated ==
    [][/\ \A t \in Tasks :
            (/\ tasks[t].op = "syncAll" /\ tasks[t].rest # <<>>
             /\ QueryFails(t) \/ SetAnchor(t)) =>
                /\ tasks'[t].op = "syncAll" /\ tasks'[t].pc = "query"
                /\ tasks'[t].type = Head(tasks[t].rest)
                /\ tasks'[t].rest = Tail(tasks[t].rest)
       /\ \A t \in Tasks, error \in UploadErrors :
            (UploadFails(t, error) /\ uploadQueue # <<>>) =>
                /\ tasks'[t].pc = "upload"
                /\ tasks'[t].batch = Head(uploadQueue)
                /\ uploadQueue' = Tail(uploadQueue)]_vars

\* the last upload failed and processQueue is uploading the batch that
\* was queued behind it, a batch of another stream
C17_Witness ==
    \E t \in Tasks :
        /\ tasks[t].pc = "upload"
        /\ ~tasks[t].ownBatch
        /\ tasks[t].batch.dataType # tasks[t].type
        /\ lastError # NoError

\* C18: while samples of a stream are in a batch that failed to upload and
\* no successful upload has carried them since, the status shows an error
\* for the stream (its last error and SyncManager.lastError are not both
\* nil) and the call that built the batch has not advanced the stream's
\* last-sync time.
C18_FailedNeverShownSynced ==
    \A type \in Types :
        (\E id \in unsynced : id[1] = type) =>
            /\ ~(typeStatuses[type] = NoError /\ lastError = NoError)
            /\ \A t \in Tasks :
                  (tasks[t].type = type /\ tasks[t].failed) =>
                      lastSyncTimes[type] = tasks[t].syncTimeBefore

\* C19: stored rows are never removed or changed and the first write of a
\* hash wins: every row of a table is still there, as it was, after any
\* step of the ingestion service, and a row that is added carries a hash
\* the table did not hold.
C19_AppendOnly ==
    [][/\ health_raw \subseteq health_raw'
       /\ workouts \subseteq workouts'
       /\ \A row \in health_raw' \ health_raw : row.hash \notin Hashes(health_raw)
       /\ \A row \in workouts' \ workouts : row.hash \notin Hashes(workouts)]_vars

\* a request with deletion identifiers and with a record whose hash was
\* stored with another unit, bundle and metadata has been answered with
\* success, next to a record it added
C19_Witness ==
    /\ handler.pc = "done" /\ handler.response.status = 200
    /\ handler.body.deletedUUIDs # <<>>
    /\ handler.response.insertedRecords > 0
    /\ \E k \in 1..Len(handler.body.records) :
          LET r == handler.body.records[k]
          IN  /\ generateRecordHash(r) \in Hashes(handler.before.health_raw)
              /\ RecordRow(r, generateRecordHash(r)) \notin health_raw

\* C20: the AnchorStore is a persistent map from type to anchor: getAnchor
\* of a type returns the anchor set last for it, none if none was set or
\* it was cleared since, after a restart as well; setAnchor and clearAnchor
\* of a type leave what getAnchor returns for every other type as it was.
C20_StoreIsPerStreamMap ==
    [][/\ \A type \in Types : getAnchorFor(defaults', type) = lastSet'[type]
       /\ got'.op = "getAnchor" => got'.result = lastSet[got'.type]
       /\ got'.op \in {"setAnchor", "clearAnchor", "setLastSyncTime", "restart"} =>
             \A T \in Types \ {got'.type} :
                 getAnchorFor(defaults', T) = getAnchorFor(defaults, T)
       /\ got'.op \in {"setLastSyncTime", "restart"} =>
             \A T \in Types :
                 getAnchorFor(defaults', T) = getAnchorFor(defaults, T)]_vars

\* after a restart getAnchor of a type has returned its anchor, while the
\* other type has another anchor
C20_Witness ==
    /\ got.op = "getAnchor" /\ got.afterRestart /\ got.result # NoAnchor
    /\ \E T \in Types \ {got.type} :
          lastSet[T] # NoAnchor /\ lastSet[T] # got.result

\* C21: an error response carries one of three reasons that can be told
\* apart, unauthorized, malformed, storage failure: an authorised request
\* whose body is no well-formed SyncBatch (no JSON, or a record whose start
\* time is no timestamp) is answered with an error whose reason (status
\* and error code) is not the one a failure of the database is answered
\* with, and nothing of it is stored.
Reason(response) == <<response.status, response.error>>
WellFormed(body) == body.json /\ ~HasUnprocessable(body)
C21_MalformedToldApart ==
    (/\ handler.pc = "done"
     /\ ~BadCredential(handler.auth)
     /\ ~WellFormed(handler.body)
     /\ ~handler.dbFailed) =>
        /\ handler.response.status # 200
        /\ Reason(handler.response) # Reason(SyncFailed(ConnectionError))
        /\ TablesAsBefore

\* C22: every batch handed to the upload queue holds at most 100 records
\* or workouts (the chunk size the plan gives), when syncData runs with the
\* configured SyncConfig.batchSize.
plannedBatchSize == 100
C22_AtMostHundredPerBatch ==
    (batchOut # Nil /\ batchIn.bs = batchSize) =>
        \A j \in 1..Len(batchOut[1]) :
            Len(BatchItems(batchOut[1][j])) <= plannedBatchSize

\* C23: when the anchored query of a fetchAndSync for a stream fails, the
\* call leaves the persisted anchor of the stream as it was, queues no
\* batch, records the error message in the stream's status and returns
\* (to syncAll, which goes on to its next stream, or to its caller); the
\* anchor and the status of every other stream are unchanged.
C23_QueryFailureFrame ==
    [][\A t \in Tasks :
          (QueryFails(t) /\ tasks[t].op \in {"fetchAndSync", "syncAll"}) =>
             LET S == tasks[t].type
             IN  /\ anchors' = anchors
                 /\ uploadQueue' = uploadQueue
                 /\ pendingBatches' = pendingBatches
                 /\ typeStatuses'[S] = "query failed"
                 /\ \A T \in Types \ {S} : typeStatuses'[T] = typeStatuses[T]
                 /\ IF tasks[t].op = "syncAll" /\ tasks[t].rest # <<>>
                    THEN /\ tasks'[t].pc = "query"
                         /\ tasks'[t].type = Head(tasks[t].rest)
                    ELSE tasks'[t].pc = "idle"]_vars

\* the query of a fetch has failed for a stream that has an anchor: the
\* stream shows the error and keeps its anchor, the other stream has its
\* anchor and shows no error
C23_Witness ==
    \E S \in Types :
        /\ typeStatuses[S] = "query failed"
        /\ anchors[S] # NoAnchor
        /\ \A t \in Tasks : tasks[t].pc = "idle"
        /\ \E T \in Types \ {S} :
              anchors[T] # NoAnchor /\ typeStatuses[T] = NoError

\* C24: when two requests whose batches share records were served at the
\* same time, both were answered with success (neither failed or rolled
\* back because of the other), no hash is stored twice, every record is
\* counted once by its request, and a shared hash that was not stored
\* before is counted as inserted by exactly one of the two.
SharedHashes ==
    { generateRecordHash(clients[1].records[k]) : k \in 1..Len(clients[1].records) }
    \cap
    { generateRecordHash(clients[2].records[k]) : k \in 1..Len(clients[2].records) }
ServedTogether ==
    /\ \A c \in Clients : clients[c].pc = "done" /\ clients[c].overlapped
    /\ SharedHashes # {}
C24_ConcurrentIngest ==
    ServedTogether =>
        /\ \A c \in Clients :
              /\ clients[c].response.status = 200
              /\ clients[c].response.insertedRecords
                    + clients[c].response.skippedDuplicates = Len(clients[c].records)
        /\ Cardinality(health_raw) = Cardinality(Hashes(health_raw))
        /\ \A h \in SharedHashes :
              /\ h \in Hashes(health_raw)
              /\ Cardinality({ c \in Clients : h \in clients[c].insertedHashes }) <= 1
              /\ (\A c \in Clients : h \notin Hashes(clients[c].before)) =>
                    Cardinality({ c \in Clients : h \in clients[c].insertedHashes }) = 1

\* C25: for a stream at most one run of fetch, normalise, batch and
\* enqueue is in progress: while a call is suspended in its run for a
\* stream (in the query, an upload, a refresh or before setAnchor) no
\* other call is in a run for the same stream, so no two runs have read
\* the same anchor of a stream.
InRun(t) == tasks[t].pc # "idle"
C25_OneRunPerStream ==
    \A t, u \in Tasks :
        (t # u /\ InRun(t) /\ InRun(u)) => tasks[t].type # tasks[u].type

\* C26: without a reset the persisted anchor of a stream never moves
\* backwards: whatever the order in which overlapping fetchAndSync runs of
\* the stream end, no step replaces the anchor by an older one.
C26_AnchorNeverMovesBack ==
    [][\A type \in Types : anchors'[type] >= anchors[type]]_vars

\* C27: (a) every batch handed to queueBatch is taken from the queue and
\* handed to uploadBatch exactly once: a step that queues batches appends
\* them (the first one goes straight to uploadBatch when no loop is
\* active), a step in which an upload returns takes the head of the queue
\* for the next upload, no step removes, reorders or repeats another
\* batch; (b) whenever the queue is not empty a processQueue loop is active,
\* suspended in an upload, with isProcessingQueue and isSyncing both true;
\* (c) if every HTTP request returns and batches stop being queued, the
\* queue drains and both flags go back to false.
QueueStep(t, C) ==
    IF C = <<>> THEN
        uploadQueue' = uploadQueue /\ tasks'[t].pc = "setAnchor"
    ELSE IF isProcessingQueue THEN
        uploadQueue' = uploadQueue \o C /\ tasks'[t].pc = "setAnchor"
    ELSE
        /\ tasks'[t].pc = "upload"
        /\ <<tasks'[t].batch>> \o uploadQueue' = uploadQueue \o <<Head(C)>>
        /\ tasks'[t].chunks = Tail(C)
TakeStep(t) ==
    IF uploadQueue # <<>> THEN
        /\ tasks'[t].pc = "upload"
        /\ <<tasks'[t].batch>> \o uploadQueue' = uploadQueue
    ELSE
        /\ uploadQueue' = <<>>
        /\ tasks'[t].pc = "refresh"
        /\ ~isProcessingQueue' /\ ~isSyncing'
UploadReturns(t) ==
    UploadSucceeds(t) \/ \E error \in UploadErrors : UploadFails(t, error)
LoopActive ==
    /\ isProcessingQueue /\ isSyncing
    /\ \E t \in Tasks : tasks[t].pc = "upload"
QueueingOver ==
    \A t \in Tasks : tasks[t].pc # "query" /\ tasks[t].chunks = <<>>
Drained == uploadQueue = <<>> /\ ~isProcessingQueue /\ ~isSyncing
C28_PendingIsQueueDepth == pendingBatches = Len(uploadQueue)

\* the two batches of one fetch wait in the queue while a batch of another
\* stream is being uploaded
C28_Witness ==
    /\ pendingBatches = 2 /\ Len(uploadQueue) = 2
    /\ uploadQueue[1].dataType = uploadQueue[2].dataType
    /\ \E t \in Tasks :
          /\ tasks[t].pc = "upload"
          /\ tasks[t].batch.dataType # uploadQueue[1].dataType

\* C29: the counts of a success response account for every item once:
\* inserted records + inserted workouts + skipped duplicates is the number
\* of records and workouts of the batch, and what is counted as inserted is
\* the number of distinct hashes of the batch that were not stored when
\* the request arrived (an item repeated in the batch is inserted once and
\* a duplicate for every repetition).
RecordHashes(body) ==
    { generateRecordHash(body.records[k]) : k \in 1..Len(body.records) }
WorkoutHashes(body) ==
    { generateWorkoutHash(body.workouts[k]) : k \in 1..Len(body.workouts) }
C29_CountsAccountForItems ==
    (handler.pc = "done" /\ handler.response.status = 200) =>
        LET r == handler.response
        IN  /\ r.insertedRecords + r.insertedWorkouts + r.skippedDuplicates
                  = Items(handler.body)
            /\ r.insertedRecords =
                  Cardinality(RecordHashes(handler.body)
                                \ Hashes(handler.before.health_raw))
            /\ r.insertedWorkouts =
                  Cardinality(WorkoutHashes(handler.body)
                                \ Hashes(handler.before.workouts))

\* a batch holding the same record twice (once with another unit) was
\* ingested when its hash was not stored: one insert, one duplicate
C29_Witness ==
    /\ handler.pc = "done" /\ handler.response.status = 200
    /\ Len(handler.body.records) = 2
    /\ handler.body.records[1] # handler.body.records[2]
    /\ Cardinality(RecordHashes(handler.body)) = 1
    /\ RecordHashes(handler.body) \cap Hashes(handler.before.health_raw) = {}
    /\ handler.response.insertedRecords = 1
    /\ handler.response.skippedDuplicates = 1

\* C30: a batch the server refuses with an authorization error is shown
\* in lastError and is not sent again by the queue: when the upload
\* returns with the error the batch was not in the queue, it is not put
\* back (the queue loses its head to the next upload and gains nothing,
\* the call's batches still to be queued are the same), so a later upload
\* carries its data only if a call fetched and queued them anew.
C30_RejectedNotRetried ==
    [][\A t \in Tasks, error \in AuthErrors :
          UploadFails(t, error) =>
             /\ lastError' = error
             /\ tasks[t].tag \notin ToSet(queueTags)
             /\ tasks'[t].chunks = tasks[t].chunks
             /\ IF uploadQueue = <<>>
                THEN uploadQueue' = <<>> /\ tasks'[t].pc = "refresh"
                ELSE /\ uploadQueue' = Tail(uploadQueue)
                     /\ tasks'[t].pc = "upload"
                     /\ tasks'[t].batch = Head(uploadQueue)
                     /\ Head(queueTags) # tasks[t].tag]_vars

\* a batch was refused and the loop is uploading the batch that waited
\* behind it; the refused one is not in the queue
C30_Witness ==
    /\ lastError \in AuthErrors
    /\ \E t \in Tasks :
          /\ tasks[t].pc = "upload" /\ ~tasks[t].ownBatch
          /\ unsynced # {}
          /\ \A k \in 1..Len(uploadQueue) :
                SampleIds(uploadQueue[k].dataType, uploadQueue[k]) \cap unsynced = {}

\* C31: filtering happens before batching: every workout in every enqueued
\* batch comes from a source whose name contains "watch" (whatever the
\* case) and has a recognized activity type; the batches a fetch builds
\* hold, in order and without gap, the workouts of the fetch that pass the
\* filter and nothing else, so a workout that fails it takes no slot; a
\* fetch whose workouts all fail and that has no deletion queues no batch.
FromWatchAndRecognized(entry) ==
    /\ contains(lowercased(entry.sourceName), "watch")
    /\ entry.activity \in validTypes
EnqueuedBatches ==
    ToSet(uploadQueue)
    \cup { tasks[t].batch : t \in { u \in Tasks : tasks[u].pc = "upload" } }
WorkoutIds(b) ==
    IF b.workouts = Nil THEN <<>>
    ELSE [k \in 1..Len(b.workouts[1]) |-> b.workouts[1][k].uuid]
\* the batches a call has built when its query has just returned: the one
\* it uploads and those it has still to queue
BuiltBatches(tk) ==
    (IF tk.pc = "upload" THEN <<tk.batch>> ELSE <<>>) \o tk.chunks
C31_FilteredBeforeBatching ==
    /\ [](\A b \in EnqueuedBatches :
             \A k \in 1..Len(WorkoutIds(b)) :
                FromWatchAndRecognized(hkLog[b.dataType][WorkoutIds(b)[k]]))
    /\ [][\A t \in Tasks :
            (QueryReturns(t) /\ tasks[t].type \notin RecordTypes) =>
               LET tk == tasks[t]
                   r == performAnchoredQuery(tk.type, tk.anchor, tk.predicate)
                   Passes(i) == FromWatchAndRecognized(hkLog[tk.type][i])
                   passing == SelectSeq(r.samples, Passes)
                   built == BuiltBatches(tasks'[t])
               IN  /\ Concat([j \in 1..Len(built) |-> WorkoutIds(built[j])])
                         = passing
                   /\ passing # <<>> =>
                         /\ Len(built) = CeilDiv(Len(passing), EngineBatchSize)
                         /\ \A j \in 1..Len(built) : WorkoutIds(built[j]) # <<>>
                   /\ (passing = <<>> /\ r.deletedObjects = <<>>) =>
                         /\ built = <<>>
                         /\ uploadQueue' = uploadQueue
                         /\ pendingBatches' = pendingBatches
                         /\ tasks'[t].pc = "setAnchor"]_vars

\* a fetch returned two workouts, one of an unrecognized activity type or
\* from another source than the watch, and built one batch, which holds
\* the other one
C31_Witness ==
    \E t \in Tasks :
        /\ tasks[t].pc = "upload"
        /\ Len(tasks[t].samples) = 2
        /\ tasks[t].built = 1
        /\ Len(WorkoutIds(tasks[t].batch)) = 1
        /\ tasks[t].chunks = <<>>

\* C32: only real workout types are synced, never "Other": the workoutType
\* of every workout a call has put into a batch names the activity type of
\* the workout it was made from ("HKWorkoutActivityType" followed by the
\* name of the activity type, its first letter in upper case), it is not
\* HKWorkoutActivityTypeOther, and two workouts of different activity types
\* in the batches of a call carry different workoutType strings.
uppercasedFirst(s) ==
    LET c == SubSeq(s, 1, 1)
    IN  IF \E i \in 1..Len(LowerLetters) : SubSeq(LowerLetters, i, i) = c
        THEN SubSeq(UpperLetters,
                    CHOOSE i \in 1..Len(LowerLetters) : SubSeq(LowerLetters, i, i) = c,
                    CHOOSE i \in 1..Len(LowerLetters) : SubSeq(LowerLetters, i, i) = c)
             \o SubSeq(s, 2, Len(s))
        ELSE s
NameOf(activity) == "HKWorkoutActivityType" \o uppercasedFirst(activity)
\* the workouts of the batches of a call, with the workout each was made of
BatchedWorkouts(tk) ==
    UNION { { [payload |-> b.workouts[1][k],
               entry |-> hkLog[b.dataType][b.workouts[1][k].uuid]] :
                 k \in 1..Len(WorkoutIds(b)) } :
            b \in ToSet(BuiltBatches(tk)) }
C32_SyncedTypesAreNamed ==
    \A t \in Tasks :
        /\ \A w \in BatchedWorkouts(tasks[t]) :
              /\ w.payload.workoutType = NameOf(w.entry.activity)
              /\ w.payload.workoutType # "HKWorkoutActivityTypeOther"
        /\ \A v, w \in BatchedWorkouts(tasks[t]) :
              v.entry.activity # w.entry.activity =>
                  v.payload.workoutType # w.payload.workoutType

\* C33: for every batch handed to deferred delivery the outcome (success
\* or failure) is eventually reported to the code of the engine through an
\* asynchronous completion, also when the process was suspended or
\* terminated and launched again between the handoff and the completion.
C33_DeferredOutcomeReported ==
    \A b \in Slots :
        (transfers[b].state # "none") ~>
            (\E outcome \in BackgroundOutcomes : <<b, outcome>> \in reported)

\* C34: the ingestion service does not trust a hash the caller supplies:
\* what an authorised request stores and what it is answered depends on
\* its items with their hash fields taken away only.  The rows a request
\* adds are those of its items whose hash, computed from the identity
\* fields, was not stored and did not occur earlier in the batch, stored
\* with that hash; the counts count these; so two requests that differ
\* in caller-supplied hashes only store the same rows with the same hashes
\* and get the same counts.
Strip(item) == [f \in DOMAIN item \ {"hash"} |-> item[f]]
RecordIdHash(body, k) == sha256(RecordKey(Strip(body.records[k])))
WorkoutIdHash(body, k) == sha256(WorkoutKey(Strip(body.workouts[k])))
NewRecords(body, before) ==
    { k \in 1..Len(body.records) :
        /\ RecordIdHash(body, k) \notin Hashes(before)
        /\ \A j \in 1..(k - 1) : RecordIdHash(body, j) # RecordIdHash(body, k) }
NewWorkouts(body, before) ==
    { k \in 1..Len(body.workouts) :
        /\ WorkoutIdHash(body, k) \notin Hashes(before)
        /\ \A j \in 1..(k - 1) : WorkoutIdHash(body, j) # WorkoutIdHash(body, k) }
C34_CallerHashIgnored ==
    handler.pc = "done" =>
        LET body == handler.body
            before == handler.before
            newR == NewRecords(body, before.health_raw)
            newW == NewWorkouts(body, before.workouts)
        IN  IF handler.response.status = 200 THEN
               /\ health_raw = before.health_raw \cup
                     { RecordRow(Strip(body.records[k]), RecordIdHash(body, k)) :
                         k \in newR }
               /\ workouts = before.workouts \cup
                     { WorkoutRow(Strip(body.workouts[k]), WorkoutIdHash(body, k)) :
                         k \in newW }
               /\ handler.response.insertedRecords = Cardinality(newR)
               /\ handler.response.insertedWorkouts = Cardinality(newW)
               /\ handler.response.skippedDuplicates =
                     Items(body) - Cardinality(newR) - Cardinality(newW)
            ELSE TablesAsBefore

\* a request was answered whose first record was not stored and carried
\* the hash of a stored row (a forged duplicate: it was inserted) and whose
\* second record was stored and carried a hash no row has (a forged
\* uniqueness: it was skipped)
C34_Witness ==
    /\ handler.pc = "done" /\ handler.response.status = 200
    /\ Len(handler.body.records) = 2
    /\ \A k \in 1..2 : "hash" \in DOMAIN handler.body.records[k]
    /\ handler.body.records[1].hash \in Hashes(handler.before.health_raw)
    /\ RecordIdHash(handler.body, 1) \notin Hashes(handler.before.health_raw)
    /\ handler.body.records[2].hash \notin Hashes(health_raw)
    /\ RecordIdHash(handler.body, 2) \in Hashes(handler.before.health_raw)
    /\ handler.response.insertedRecords = 1
    /\ handler.response.skippedDuplicates = 1

\* C35: records that differ in an identity field (stream, source, start,
\* end, value or else text) are never taken for duplicates of each other:
\* they get different hashes, whatever the fields hold, a source name with
\* the separator character included, so both are stored; the same for
\* workouts over (type, source, start, end, duration).  Checked on the
\* hashes the handler computed and the hashes stored.
C35_DifferentIdentityDifferentHash ==
    /\ \A p, q \in HashedRecords : p[1] # q[1] => p[2] # q[2]
    /\ \A p, q \in HashedWorkouts : p[1] # q[1] => p[2] # q[2]
    /\ (handler.pc = "done" /\ handler.response.status = 200) =>
          \A k \in 1..Len(handler.body.records) :
             \E row \in health_raw :
                RowIdentity(row) = RecordIdentity(handler.body.records[k])

\* C36: nothing in the engine is fatal to the host process: every failing
\* uploadBatch call (invalid URL, missing or unreadable credential,
\* encoding error, transport error, non-HTTP response, non-2xx status)
\* ends as an error recorded in lastError, after which processQueue goes
\* on with the next batch; the process keeps running.
C36_UploadErrorsNotFatal ==
    /\ [](appState = "running")
    /\ [][\A t \in Tasks :
            (tasks[t].pc = "upload" /\ tasks'[t] # tasks[t] /\ ~UploadSucceeds(t)) =>
               /\ lastError' \in UploadBatchErrors
               /\ IF uploadQueue = <<>>
                  THEN tasks'[t].pc = "refresh"
                  ELSE /\ tasks'[t].pc = "upload"
                       /\ tasks'[t].batch = Head(uploadQueue)]_vars

\* C37: observer registration is idempotent and happens on every process
\* start whatever the authorization state: once the app has been launched
\* and no requestAuthorization call is in progress, every stream has
\* exactly one registered observer query, after any sequence of process
\* starts and of requestAuthorization / initializeIfAuthorized calls, two
\* overlapping requestAuthorization calls included.
C37_OneObserverPerStream ==
    (launched /\ \A c \in Calls : authCalls[c].pc = "idle") =>
        \A type \in Types : observerQueries[type] = 1

\* C38: every batch assembled by syncData carries records or workouts but
\* never both, in every state of the upload queue: records is non-nil only
\* for a record stream, workouts is non-nil only for the workout stream,
\* and a batch of deletions only has both nil.
AssembledBatches ==
    EnqueuedBatches \cup UNION { ToSet(tasks[t].chunks) : t \in Tasks }
RecordsXorWorkouts(b) ==
    /\ b.records = Nil \/ b.workouts = Nil
    /\ b.records # Nil => b.dataType \in RecordTypes
    /\ b.workouts # Nil => b.dataType = "HKWorkoutType"
    /\ BatchItems(b) = <<>> =>
          b.records = Nil /\ b.workouts = Nil /\ b.deletedUUIDs # <<>>
C38_RecordsOrWorkoutsNeverBoth ==
    /\ \A b \in AssembledBatches : RecordsXorWorkouts(b)
    /\ batchOut # Nil =>
          \A k \in 1..Len(batchOut[1]) : RecordsXorWorkouts(batchOut[1][k])
\* the upload queue holds a batch of a record stream while the batch in
\* flight is of the other kind (workouts, or deletions only)
C38_Witness ==
    /\ \E b \in ToSet(uploadQueue) : b.records # Nil
    /\ \E t \in Tasks :
          /\ tasks[t].pc = "upload"
          /\ tasks[t].batch.records = Nil
          /\ tasks[t].batch.deletedUUIDs # <<>>

====
